---- MODULE Spec2Model ----
(***************************************************************************)
(* Crawl queue scheduler of spyglass                                       *)
(* (crates/entities/src/models/crawl_queue.rs) and the start of the        *)
(* backend (crates/spyglass/src/main.rs).                                  *)
(*                                                                         *)
(* A URL string is modelled by the record of its parts                     *)
(*   scheme "://" host path [ "#" frag ]                                   *)
(* where path is the sequence of its tokens ("/" and the segments), so     *)
(* that prefixes and depths are computed and not assumed.  Timestamps are  *)
(* ticks of a clock with TicksPerDay ticks a day.  The tag join tables     *)
(* written by mark_done are not part of the state.                         *)
(***************************************************************************)
EXTENDS Integers, Sequences, FiniteSets, TLC

\* ------------------------------------------------------------------ bounds
\* rows ever inserted into crawl_queue (ids are 1..MaxId)
MaxId == 2
\* the clock stops at MaxTime
MaxTime == 1
\* clock ticks in one day
TicksPerDay == 1
\* rows of indexed_document
MaxIndexed == 1
\* concurrent callers of dequeue / dequeue_recrawl
NumCallers == 2
\* plugin instances ever registered
MaxPlugins == 3
\* commands held by the plugin command channel
MaxQueued == 2
\* events delivered to plugins
MaxDelivered == 2
\* the rows of one insert statement (BATCH_SIZE in the code, 5_000)
ChunkLen == 1

\* --------------------------------------------------------------- constants
MAX_RETRIES == 5

VARIABLES
    queue,          \* table crawl_queue: id -> row, for the ids that exist
    next_id,        \* next primary key
    indexed,        \* table indexed_document: the set of its urls
    now,            \* chrono::Utc::now()
    user_settings,  \* AppState.user_settings (the limits)
    backend,        \* start_backend: "down", "starting" (reset done), "running"
    pc,             \* per caller: where it is inside dequeue / dequeue_recrawl
    sel,            \* per caller: id of the task it selected
    handed,         \* id -> number of callers the task was returned to since
                    \*       it last left Processing
    last,           \* the last call: its name, arguments and result
    plugins,        \* PluginManager.plugins: plugin id -> [name, is_enabled]
    check_update_subs, \* PluginManager.check_update_subs
    cmd_queue,      \* the plugin command channel
    loop_pc,        \* plugin_event_loop: "off", "load", "recv" or "send"
    pending,        \* the commands the loop has still to send
    delivered,      \* the events written to a plugin's stdin, update called
    file_watch_subs, \* plugin_event_loop: plugin id -> the path it watches
    watched,        \* the directories given to watcher.watch
    fs,             \* the files that exist under the directories
    file_events,    \* the channel from the watcher to the loop
    shutdown_rx,    \* the loop's receiver of the shutdown broadcast
    observed        \* the number of plugin events made so far

plugin_vars ==
    <<plugins, check_update_subs, cmd_queue, loop_pc, pending, delivered,
      file_watch_subs, watched, fs, file_events, shutdown_rx, observed>>

vars == <<queue, next_id, indexed, now, user_settings, backend, pc, sel, handed, last,
          plugins, check_update_subs, cmd_queue, loop_pc, pending, delivered,
          file_watch_subs, watched, fs, file_events, shutdown_rx, observed>>

Ids == 1..MaxId
Callers == 1..NumCallers

\* ------------------------------------------------------------------- urls
Url(s, h, p, f) == [scheme |-> s, host |-> h, path |-> p, frag |-> f]

U_a    == Url("https", "a.com", <<"/">>, "")
U_af   == Url("https", "a.com", <<"/">>, "frag")
U_a0   == Url("https", "a.com", <<>>, "")
U_ax   == Url("https", "a.com", <<"/", "x">>, "")
U_b    == Url("https", "b.com", <<"/">>, "")
U_file == Url("file", "", <<"/", "x">>, "")
U_file2 == Url("file", "", <<"/", "y">>, "")
U_ftp  == Url("ftp", "a.com", <<"/">>, "")
U_bad  == Url("", "", <<"x">>, "")

RawUrls == {U_a, U_af, U_a0, U_ax, U_b, U_file, U_ftp, U_bad}

\* Url::parse: fails without a scheme; a special scheme gets the path "/"
\* when the input has none.
ParseOk(u) == u.scheme # ""

SpecialScheme(s) == s \in {"http", "https", "file", "ftp"}

Parse(u) ==
    IF SpecialScheme(u.scheme) /\ u.path = <<>>
    THEN [u EXCEPT !.path = <<"/">>]
    ELSE u

\* filter_urls, the scheme gate and set_fragment(None); to_string is the record
SchemeOk(u) == u.scheme \in {"http", "https", "file", "api"}

\* mutant: the url with its fragment
Normalize_KeepFragment(u) == Parse(u)

Normalize(u) == [Parse(u) EXCEPT !.frag = ""]

\* enqueue_all: the domain column of a new row
DomainOf(u) == IF u.scheme = "file" THEN "localhost" ELSE u.host

IsPrefix(p, s) == Len(p) <= Len(s) /\ SubSeq(s, 1, Len(p)) = p

Range(f) == {f[i] : i \in DOMAIN f}

\* ------------------------------------------------------------ lens rules
\* shared::regex and LensRule::to_regex: a pattern is modelled by what it
\* matches.  A domain pattern matches the http(s) urls of exactly that host,
\* a prefix (or a SkipURL glob "prefix*") the urls that start with it, a
\* LimitURLDepth the urls under the prefix with at most depth segments.
Pattern(k, u, d) == [kind |-> k, url |-> u, depth |-> d]

regex_for_domain(d) == Pattern("domain", Url("https", d, <<>>, ""), 0)

regex_for_prefix(p) == Pattern("prefix", p, 0)

to_regex(rule) ==
    IF rule.rule = "SkipURL"
    THEN Pattern("prefix", rule.url, 0)
    ELSE Pattern("depth", rule.url, rule.depth)

Segments(path) == Cardinality({i \in DOMAIN path : path[i] # "/"})

Matches(pat, u) ==
    CASE pat.kind = "domain" ->
            u.scheme \in {"http", "https"} /\ u.host = pat.url.host
      [] pat.kind = "prefix" ->
            /\ u.scheme = pat.url.scheme
            /\ u.host = pat.url.host
            /\ IsPrefix(pat.url.path, u.path)
      [] OTHER ->
            /\ u.scheme = pat.url.scheme
            /\ u.host = pat.url.host
            /\ Segments(u.path) <= pat.depth

\* RegexSet::is_match
is_match(set, u) == \E pat \in set : Matches(pat, u)

LensConfig(ds, us, rs) == [domains |-> ds, urls |-> us, rules |-> rs]

SkipURL(u) == [rule |-> "SkipURL", url |-> u, depth |-> 0]

LimitURLDepth(u, d) == [rule |-> "LimitURLDepth", url |-> u, depth |-> d]

create_ruleset_from_lens(lens) ==
    [allow_list |-> {regex_for_domain(d) : d \in lens.domains}
                    \cup {regex_for_prefix(p) : p \in lens.urls},
     skip_list |-> {to_regex(r) : r \in {x \in lens.rules : x.rule = "SkipURL"}},
     restrict_list |->
         {to_regex(r) : r \in {x \in lens.rules : x.rule = "LimitURLDepth"}}]

\* mutant: the block_list domains pushed to the allow list
filter_urls_BlockListAllows(lenses, settings, overrides, urls) ==
    LET allow_list == {regex_for_domain(d) : d \in settings.block_list}
                      \cup UNION {create_ruleset_from_lens(l).allow_list : l \in lenses}
        skip_list == UNION {create_ruleset_from_lens(l).skip_list : l \in lenses}
        restrict_list ==
            UNION {create_ruleset_from_lens(l).restrict_list : l \in lenses}
        Keep(url) ==
            /\ ParseOk(url)
            /\ SchemeOk(Parse(url))
            /\ ~ is_match(skip_list, Normalize(url))
            /\ ~ (restrict_list # {} /\ ~ is_match(restrict_list, Normalize(url)))
            /\ \/ settings.crawl_external_links
               \/ overrides.force_allow
               \/ (allow_list # {} /\ is_match(allow_list, Normalize(url)))
        kept == SelectSeq(urls, Keep)
    IN  [i \in 1..Len(kept) |-> Normalize(kept[i])]

\* mutant: crawl_external_links and force_allow tested before the skip list
filter_urls_AllowFirst(lenses, settings, overrides, urls) ==
    LET allow_list == UNION {create_ruleset_from_lens(l).allow_list : l \in lenses}
        skip_list == {regex_for_domain(d) : d \in settings.block_list}
                     \cup UNION {create_ruleset_from_lens(l).skip_list : l \in lenses}
        restrict_list ==
            UNION {create_ruleset_from_lens(l).restrict_list : l \in lenses}
        Keep(url) ==
            /\ ParseOk(url)
            /\ SchemeOk(Parse(url))
            /\ \/ settings.crawl_external_links
               \/ overrides.force_allow
               \/ /\ ~ is_match(skip_list, Normalize(url))
                  /\ ~ (restrict_list # {} /\ ~ is_match(restrict_list, Normalize(url)))
                  /\ allow_list # {}
                  /\ is_match(allow_list, Normalize(url))
        kept == SelectSeq(urls, Keep)
    IN  [i \in 1..Len(kept) |-> Normalize(kept[i])]

\* mutant: the restrict list tested only for urls that need the allow list
filter_urls_RestrictAfterForce(lenses, settings, overrides, urls) ==
    LET allow_list == UNION {create_ruleset_from_lens(l).allow_list : l \in lenses}
        skip_list == {regex_for_domain(d) : d \in settings.block_list}
                     \cup UNION {create_ruleset_from_lens(l).skip_list : l \in lenses}
        restrict_list ==
            UNION {create_ruleset_from_lens(l).restrict_list : l \in lenses}
        Keep(url) ==
            /\ ParseOk(url)
            /\ SchemeOk(Parse(url))
            /\ ~ is_match(skip_list, Normalize(url))
            /\ \/ settings.crawl_external_links
               \/ overrides.force_allow
               \/ /\ ~ (restrict_list # {} /\ ~ is_match(restrict_list, Normalize(url)))
                  /\ allow_list # {}
                  /\ is_match(allow_list, Normalize(url))
        kept == SelectSeq(urls, Keep)
    IN  [i \in 1..Len(kept) |-> Normalize(kept[i])]

\* filter_urls: lenses is a set of lens configs, settings carries block_list
\* and crawl_external_links, overrides carries force_allow.
filter_urls(lenses, settings, overrides, urls) ==
    LET allow_list == UNION {create_ruleset_from_lens(l).allow_list : l \in lenses}
        skip_list == {regex_for_domain(d) : d \in settings.block_list}
                     \cup UNION {create_ruleset_from_lens(l).skip_list : l \in lenses}
        restrict_list ==
            UNION {create_ruleset_from_lens(l).restrict_list : l \in lenses}
        Keep(url) ==
            /\ ParseOk(url)
            /\ SchemeOk(Parse(url))
            /\ ~ is_match(skip_list, Normalize(url))
            /\ ~ (restrict_list # {} /\ ~ is_match(restrict_list, Normalize(url)))
            /\ \/ settings.crawl_external_links
               \/ overrides.force_allow
               \/ (allow_list # {} /\ is_match(allow_list, Normalize(url)))
        kept == SelectSeq(urls, Keep)
    IN  [i \in 1..Len(kept) |-> Normalize(kept[i])]

\* ------------------------------------------------------------------ rows
\* ActiveModel::new plus the columns enqueue_all sets; num_retries takes the
\* column default.
NewRow(url, crawl_type, pipeline, t) ==
    [url |-> url, domain |-> DomainOf(url), status |-> "Queued",
     crawl_type |-> crawl_type, num_retries |-> 0, pipeline |-> pipeline,
     created_at |-> t, updated_at |-> t]

IdsWithUrl(q, url) == {i \in DOMAIN q : q[i].url = url}

\* mutant: the insert without ON CONFLICT
InsertRow_NoConflict(st, row, is_recrawl) ==
    [q |-> (st.nid :> row) @@ st.q, nid |-> st.nid + 1]

\* mutant: ON CONFLICT (url) DO UPDATE of every column for a recrawl
InsertRow_ReplaceRow(st, row, is_recrawl) ==
    IF IdsWithUrl(st.q, row.url) # {}
    THEN IF is_recrawl
         THEN [st EXCEPT !.q = [i \in DOMAIN st.q |->
                                   IF st.q[i].url = row.url THEN row ELSE st.q[i]]]
         ELSE st
    ELSE [q |-> (st.nid :> row) @@ st.q, nid |-> st.nid + 1]

\* mutant: ON CONFLICT (url) DO UPDATE SET status whatever is_recrawl is
InsertRow_AlwaysUpdate(st, row, is_recrawl) ==
    IF IdsWithUrl(st.q, row.url) # {}
    THEN [st EXCEPT !.q = [i \in DOMAIN st.q |->
                              IF st.q[i].url = row.url
                              THEN [st.q[i] EXCEPT !.status = row.status]
                              ELSE st.q[i]]]
    ELSE [q |-> (st.nid :> row) @@ st.q, nid |-> st.nid + 1]

\* mutant: ON CONFLICT (url) DO NOTHING also for a recrawl
InsertRow_DoNothing(st, row, is_recrawl) ==
    IF IdsWithUrl(st.q, row.url) # {}
    THEN st
    ELSE [q |-> (st.nid :> row) @@ st.q, nid |-> st.nid + 1]

\* One row of the bulk insert with its ON CONFLICT (url) policy: DO UPDATE
\* SET status = excluded.status for a recrawl, DO NOTHING otherwise.
\* st is [q, nid]: the table and the next primary key.
InsertRow(st, row, is_recrawl) ==
    IF IdsWithUrl(st.q, row.url) # {}
    THEN IF is_recrawl
         THEN [st EXCEPT !.q = [i \in DOMAIN st.q |->
                                   IF st.q[i].url = row.url
                                   THEN [st.q[i] EXCEPT !.status = row.status]
                                   ELSE st.q[i]]]
         ELSE st
    ELSE [q |-> (st.nid :> row) @@ st.q, nid |-> st.nid + 1]

RECURSIVE InsertMany(_, _, _)
InsertMany(st, rows, is_recrawl) ==
    IF rows = <<>>
    THEN st
    ELSE InsertMany(InsertRow(st, Head(rows), is_recrawl), Tail(rows), is_recrawl)

\* mutant: enqueue_all without the look into the indexed documents
RowsToAdd_NoIndexCheck(urls, lenses, settings, overrides, pipeline, idx, t) ==
    LET filtered == filter_urls(lenses, settings, overrides, urls)
    IN  [i \in 1..Len(filtered) |->
            NewRow(filtered[i], overrides.crawl_type, pipeline, t)]

\* enqueue_all up to the insert: the rows to add
RowsToAdd(urls, lenses, settings, overrides, pipeline, idx, t) ==
    LET filtered == filter_urls(lenses, settings, overrides, urls)
        is_indexed == IF overrides.is_recrawl THEN {} ELSE Range(filtered) \cap idx
        fresh == SelectSeq(filtered, LAMBDA u : u \notin is_indexed)
    IN  [i \in 1..Len(fresh) |-> NewRow(fresh[i], overrides.crawl_type, pipeline, t)]

\* the ghost count follows the table: a new row, or a row set back to Queued,
\* is in nobody's hands
HandedAfter(q2, q1, h) ==
    [i \in DOMAIN q2 |->
        IF i \in DOMAIN q1 /\ q2[i].status = "Processing" /\ q1[i].status = "Processing"
        THEN h[i]
        ELSE 0]

enqueue_all(urls, lenses, settings, overrides, pipeline) ==
    LET rows == RowsToAdd(urls, lenses, settings, overrides, pipeline, indexed, now)
        st == InsertMany([q |-> queue, nid |-> next_id], rows, overrides.is_recrawl)
    IN  /\ backend = "running"
        /\ st.nid <= MaxId + 1
        /\ queue' = st.q
        /\ next_id' = st.nid
        /\ handed' = HandedAfter(st.q, queue, handed)
        /\ last' = [op |-> "enqueue_all", urls |-> urls,
                    is_recrawl |-> overrides.is_recrawl,
                    filtered |-> Range(filter_urls(lenses, settings, overrides, urls)),
                    added |-> {rows[i].url : i \in DOMAIN rows},
                    new |-> DOMAIN st.q \ DOMAIN queue,
                    requeued |-> {i \in DOMAIN queue :
                                     /\ overrides.is_recrawl
                                     /\ queue[i].status = "Completed"
                                     /\ \E k \in DOMAIN rows : rows[k].url = queue[i].url}]
        /\ UNCHANGED <<indexed, now, user_settings, backend, pc, sel, plugin_vars>>

\* ------------------------------------------------------------- scheduler
Limit(f, n) == [finite |-> f, n |-> n]

Settings(l, d, c) ==
    [inflight_crawl_limit |-> l, inflight_domain_limit |-> d, domain_crawl_limit |-> c]

num_tasks_in_progress(q) == Cardinality({i \in DOMAIN q : q[i].status = "Processing"})

\* the check for inflight limits that opens dequeue and dequeue_recrawl
InflightLimitReached(q, s) ==
    /\ s.inflight_crawl_limit.finite
    /\ num_tasks_in_progress(q) >= s.inflight_crawl_limit.n

\* mutant: the query without its ORDER BY
Oldest_Unordered(q, S) == S

Oldest(q, S) == {i \in S : \A j \in S : q[i].updated_at <= q[j].updated_at}

\* find().filter(status = Queued).filter(crawl_type = Bootstrap).one(): the
\* rows the query may give (it has no ORDER BY)
BootstrapQuery(q) ==
    {i \in DOMAIN q : q[i].status = "Queued" /\ q[i].crawl_type = "Bootstrap"}

IndexedCount(idx, d) == Cardinality({u \in idx : DomainOf(u) = d})

InflightCount(q, d) ==
    Cardinality({i \in DOMAIN q : q[i].status = "Processing" /\ q[i].domain = d})

\* mutant: the query without the inflight join
gen_dequeue_sql_NoInflight(q, idx, s) ==
    Oldest(q, {i \in DOMAIN q :
                  /\ IndexedCount(idx, q[i].domain) < s.domain_crawl_limit
                  /\ q[i].status = "Queued"})

\* mutant: the query without the indexed join
gen_dequeue_sql_NoIndexed(q, idx, s) ==
    Oldest(q, {i \in DOMAIN q :
                  /\ InflightCount(q, q[i].domain) < s.inflight_domain_limit
                  /\ q[i].status = "Queued"})

\* sql/dequeue.sqlx with its two bound values: the rows that may come first
gen_dequeue_sql(q, idx, s) ==
    Oldest(q, {i \in DOMAIN q :
                  /\ IndexedCount(idx, q[i].domain) < s.domain_crawl_limit
                  /\ InflightCount(q, q[i].domain) < s.inflight_domain_limit
                  /\ q[i].status = "Queued"})

\* mutant: no query for Bootstrap tasks
DequeueSelect_NoBootstrap(q, idx, s) == gen_dequeue_sql(q, idx, s)

\* dequeue, the block that picks the entity
DequeueSelect(q, idx, s) ==
    IF BootstrapQuery(q) # {} THEN BootstrapQuery(q) ELSE gen_dequeue_sql(q, idx, s)

\* mutant: the query without the filter on the url
RecrawlSelect_AnyScheme(q) == Oldest(q, {i \in DOMAIN q : q[i].status = "Completed"})

\* dequeue_recrawl, the query for the task
RecrawlSelect(q) ==
    Oldest(q, {i \in DOMAIN q : q[i].status = "Completed" /\ q[i].url.scheme = "file"})

\* time_since.num_days()
num_days(t1, t0) == (t1 - t0) \div TicksPerDay

\* mutant: the update without the status
Claim_KeepStatus(q, id, t) == [q EXCEPT ![id].updated_at = t]

\* update.status = Set(Processing); update.update(db), with before_save
Claim(q, id, t) == [q EXCEPT ![id].status = "Processing", ![id].updated_at = t]

HandedAfterClaim(q2, q1, h, id) == [HandedAfter(q2, q1, h) EXCEPT ![id] = h[id] + 1]

None == 0

Returned(name, c, id) == [op |-> name, caller |-> c, ret |-> id]

\* dequeue as one call of one caller
dequeue(c) ==
    /\ backend = "running"
    /\ pc[c] = "idle"
    /\ \/ /\ InflightLimitReached(queue, user_settings)
             \/ DequeueSelect(queue, indexed, user_settings) = {}
          /\ last' = Returned("dequeue", c, None)
          /\ UNCHANGED <<queue, handed>>
       \/ /\ ~ InflightLimitReached(queue, user_settings)
          /\ \E id \in DequeueSelect(queue, indexed, user_settings) :
                /\ queue' = Claim(queue, id, now)
                /\ handed' = HandedAfterClaim(queue', queue, handed, id)
                /\ last' = Returned("dequeue", c, id)
    /\ UNCHANGED <<next_id, indexed, now, user_settings, backend, pc, sel, plugin_vars>>

\* dequeue_recrawl as one call of one caller
dequeue_recrawl(c) ==
    /\ backend = "running"
    /\ pc[c] = "idle"
    /\ \/ /\ \/ InflightLimitReached(queue, user_settings)
             \/ RecrawlSelect(queue) = {}
             \/ \E id \in RecrawlSelect(queue) : num_days(now, queue[id].updated_at) < 1
          /\ last' = Returned("dequeue_recrawl", c, None)
          /\ UNCHANGED <<queue, handed>>
       \/ /\ ~ InflightLimitReached(queue, user_settings)
          /\ \E id \in RecrawlSelect(queue) :
                /\ ~ (num_days(now, queue[id].updated_at) < 1)
                /\ queue' = Claim(queue, id, now)
                /\ handed' = HandedAfterClaim(queue', queue, handed, id)
                /\ last' = Returned("dequeue_recrawl", c, id)
    /\ UNCHANGED <<next_id, indexed, now, user_settings, backend, pc, sel, plugin_vars>>

\* ------------------------------------------- dequeue, one await at a time
\* Two callers share the database connection; every await of dequeue and of
\* dequeue_recrawl is a step of its own.
NoSel == [id |-> None, updated_at |-> 0]

Goto(c, label) == pc' = [pc EXCEPT ![c] = label]

\* num_tasks_in_progress(db).await and the early return
DequeueCount(c) ==
    /\ backend = "running"
    /\ pc[c] = "idle"
    /\ IF InflightLimitReached(queue, user_settings)
       THEN /\ last' = Returned("dequeue", c, None)
            /\ UNCHANGED pc
       ELSE /\ last' = [op |-> "await", caller |-> c]
            /\ Goto(c, "dequeue_select")
    /\ UNCHANGED <<queue, next_id, indexed, now, user_settings, backend, sel, handed, plugin_vars>>

\* the two find()...one(db).await
DequeuePick(c) ==
    /\ backend = "running"
    /\ pc[c] = "dequeue_select"
    /\ IF DequeueSelect(queue, indexed, user_settings) = {}
       THEN /\ last' = Returned("dequeue", c, None)
            /\ Goto(c, "idle")
            /\ UNCHANGED sel
       ELSE \E id \in DequeueSelect(queue, indexed, user_settings) :
                /\ sel' = [sel EXCEPT ![c] = [id |-> id, updated_at |-> queue[id].updated_at]]
                /\ last' = [op |-> "await", caller |-> c]
                /\ Goto(c, "dequeue_claim")
    /\ UNCHANGED <<queue, next_id, indexed, now, user_settings, backend, handed, plugin_vars>>

\* what the caller gets when the update of the claim gave an error
ClaimFailed(name, c, id) == [op |-> name, caller |-> c, ret |-> None, gone |-> id]

\* mutant: the task that was selected is returned though its update failed
ClaimSelected_ReturnsStale(c, name) ==
    /\ IF sel[c].id \in DOMAIN queue
       THEN /\ queue' = Claim(queue, sel[c].id, now)
            /\ handed' = HandedAfterClaim(queue', queue, handed, sel[c].id)
            /\ last' = Returned(name, c, sel[c].id)
       ELSE /\ last' = Returned(name, c, sel[c].id)
            /\ UNCHANGED <<queue, handed>>
    /\ sel' = [sel EXCEPT ![c] = NoSel]
    /\ Goto(c, "idle")

\* update.update(db).await: Ok(Some(model)), or the error is logged and
\* Ok(None) is returned when the row is gone
ClaimSelected(c, name) ==
    /\ IF sel[c].id \in DOMAIN queue
       THEN /\ queue' = Claim(queue, sel[c].id, now)
            /\ handed' = HandedAfterClaim(queue', queue, handed, sel[c].id)
            /\ last' = Returned(name, c, sel[c].id)
       ELSE /\ last' = ClaimFailed(name, c, sel[c].id)
            /\ UNCHANGED <<queue, handed>>
    /\ sel' = [sel EXCEPT ![c] = NoSel]
    /\ Goto(c, "idle")

DequeueClaim(c) ==
    /\ backend = "running"
    /\ pc[c] = "dequeue_claim"
    /\ ClaimSelected(c, "dequeue")
    /\ UNCHANGED <<next_id, indexed, now, user_settings, backend, plugin_vars>>

RecrawlCount(c) ==
    /\ backend = "running"
    /\ pc[c] = "idle"
    /\ IF InflightLimitReached(queue, user_settings)
       THEN /\ last' = Returned("dequeue_recrawl", c, None)
            /\ UNCHANGED pc
       ELSE /\ last' = [op |-> "await", caller |-> c]
            /\ Goto(c, "recrawl_select")
    /\ UNCHANGED <<queue, next_id, indexed, now, user_settings, backend, sel, handed, plugin_vars>>

RecrawlPick(c) ==
    /\ backend = "running"
    /\ pc[c] = "recrawl_select"
    /\ IF RecrawlSelect(queue) = {}
       THEN /\ last' = Returned("dequeue_recrawl", c, None)
            /\ Goto(c, "idle")
            /\ UNCHANGED sel
       ELSE \E id \in RecrawlSelect(queue) :
                /\ sel' = [sel EXCEPT ![c] = [id |-> id, updated_at |-> queue[id].updated_at]]
                /\ last' = [op |-> "await", caller |-> c]
                /\ Goto(c, "recrawl_claim")
    /\ UNCHANGED <<queue, next_id, indexed, now, user_settings, backend, handed, plugin_vars>>

RecrawlClaim(c) ==
    /\ backend = "running"
    /\ pc[c] = "recrawl_claim"
    /\ IF num_days(now, sel[c].updated_at) < 1
       THEN /\ last' = Returned("dequeue_recrawl", c, None)
            /\ sel' = [sel EXCEPT ![c] = NoSel]
            /\ Goto(c, "idle")
            /\ UNCHANGED <<queue, handed>>
       ELSE ClaimSelected(c, "dequeue_recrawl")
    /\ UNCHANGED <<next_id, indexed, now, user_settings, backend, plugin_vars>>

\* --------------------------------------------------- completion handlers
\* updated.status = Set(Completed); updated.update(db)
mark_done(id) ==
    /\ backend = "running"
    /\ IF id \in DOMAIN queue
       THEN queue' = [queue EXCEPT ![id].status = "Completed", ![id].updated_at = now]
       ELSE UNCHANGED queue
    /\ handed' = HandedAfter(queue', queue, handed)
    /\ last' = [op |-> "mark_done", id |-> id]
    /\ UNCHANGED <<next_id, indexed, now, user_settings, backend, pc, sel, plugin_vars>>

\* mutant: a retry whatever num_retries is
FailedRow_NoLimit(row, retry, t) ==
    IF retry
    THEN [row EXCEPT !.num_retries = row.num_retries + 1,
                     !.status = "Queued", !.updated_at = t]
    ELSE [row EXCEPT !.status = "Failed", !.updated_at = t]

\* mutant: the retry test with < for <=
FailedRow_StrictlyLess(row, retry, t) ==
    IF retry /\ row.num_retries < MAX_RETRIES
    THEN [row EXCEPT !.num_retries = row.num_retries + 1,
                     !.status = "Queued", !.updated_at = t]
    ELSE [row EXCEPT !.status = "Failed", !.updated_at = t]

\* mutant: a retry that is not counted
FailedRow_NoCount(row, retry, t) ==
    IF retry
    THEN [row EXCEPT !.status = "Queued", !.updated_at = t]
    ELSE [row EXCEPT !.status = "Failed", !.updated_at = t]

FailedRow(row, retry, t) ==
    IF retry /\ row.num_retries <= MAX_RETRIES
    THEN [row EXCEPT !.num_retries = row.num_retries + 1,
                     !.status = "Queued", !.updated_at = t]
    ELSE [row EXCEPT !.status = "Failed", !.updated_at = t]

\* calls: the length of the run of mark_failed(id, true) calls this call ends,
\* counted when the run began at num_retries = 0 (0 otherwise) and no further
\* than MAX_RETRIES + 2
RunOfFailures(id, retry) ==
    IF ~ retry \/ id \notin DOMAIN queue
    THEN 0
    ELSE IF last.op = "mark_failed" /\ last.id = id /\ last.calls > 0
         THEN IF last.calls > MAX_RETRIES + 1 THEN last.calls ELSE last.calls + 1
         ELSE IF queue[id].num_retries = 0 THEN 1 ELSE 0

mark_failed(id, retry) ==
    /\ backend = "running"
    /\ IF id \in DOMAIN queue
       THEN queue' = [queue EXCEPT ![id] = FailedRow(queue[id], retry, now)]
       ELSE UNCHANGED queue
    /\ handed' = HandedAfter(queue', queue, handed)
    /\ last' = [op |-> "mark_failed", id |-> id, retry |-> retry,
                calls |-> RunOfFailures(id, retry)]
    /\ UNCHANGED <<next_id, indexed, now, user_settings, backend, pc, sel, plugin_vars>>

\* mutant: the delete filtered on the status as well
RemovedByRule_QueuedOnly(q, rule) ==
    {i \in DOMAIN q : Matches(rule, q[i].url) /\ q[i].status = "Queued"}

\* filter(url LIKE rule): rule is the prefix before a final %
RemovedByRule(q, rule) == {i \in DOMAIN q : Matches(rule, q[i].url)}

\* delete_many().filter(..).exec(db); last.statuses are the statuses of the
\* rows that went
remove_by_rule(rule) ==
    LET gone == RemovedByRule(queue, rule)
    IN  /\ backend = "running"
        /\ queue' = [i \in DOMAIN queue \ gone |-> queue[i]]
        /\ handed' = HandedAfter(queue', queue, handed)
        /\ last' = [op |-> "remove_by_rule", rule |-> rule, ret |-> Cardinality(gone),
                    statuses |-> {queue[i].status : i \in gone}]
        /\ UNCHANGED <<next_id, indexed, now, user_settings, backend, pc, sel, plugin_vars>>

TaskNotFound == 0 - 1

\* mutant: the lookup by url finds nothing
ExistingTask_None(q, url) == {}

\* find().filter(url = url).one(): the rows the query may give
ExistingTask(q, url) == IdsWithUrl(q, url)

\* mutant: the delete without the test on the id
RemoveOther_Always(q, id, existing) == [i \in DOMAIN q \ {id} |-> q[i]]

\* if existing.id != id { delete_by_id(id) }
RemoveOther(q, id, existing) ==
    IF existing # id THEN [i \in DOMAIN q \ {id} |-> q[i]] ELSE q

\* mutant: the save without the url
RenameTask_KeepUrl(q, id, url, t) == q

\* if task.url != url { update.url = Set(url); update.save(db) }
RenameTask(q, id, url, t) ==
    IF q[id].url # url
    THEN [q EXCEPT ![id].url = url, ![id].updated_at = t]
    ELSE q

\* last.found tells whether the id had a row, last.again whether the call
\* before this one was the same call
update_or_remove_task(id, url) ==
    LET Result(r) ==
            [op |-> "update_or_remove_task", id |-> id, url |-> url, ret |-> r,
             found |-> id \in DOMAIN queue,
             again |-> /\ last.op = "update_or_remove_task"
                       /\ last.id = id
                       /\ last.url = url]
    IN  /\ backend = "running"
        /\ IF ExistingTask(queue, url) # {}
           THEN \E existing \in ExistingTask(queue, url) :
                   /\ queue' = RemoveOther(queue, id, existing)
                   /\ last' = Result(existing)
           ELSE IF id \in DOMAIN queue
                THEN /\ queue' = RenameTask(queue, id, url, now)
                     /\ last' = Result(id)
                ELSE /\ UNCHANGED queue
                     /\ last' = Result(TaskNotFound)
        /\ handed' = HandedAfter(queue', queue, handed)
        /\ UNCHANGED <<next_id, indexed, now, user_settings, backend, pc, sel, plugin_vars>>

\* ------------------------------------------------------------ supervisor
\* mutant: the reset filtered on the wrong status
reset_processing_Queued(q) ==
    [i \in DOMAIN q |->
        IF q[i].status = "Queued" THEN [q[i] EXCEPT !.status = "Queued"] ELSE q[i]]

\* update_many().col_expr(status, Queued).filter(status = Processing)
reset_processing(q) ==
    [i \in DOMAIN q |->
        IF q[i].status = "Processing" THEN [q[i] EXCEPT !.status = "Queued"] ELSE q[i]]

\* start_backend, its first await: reset_processing; nothing is spawned yet.
\* last.reset names the rows that were in flight.
start_backend ==
    /\ backend = "down"
    /\ queue' = reset_processing(queue)
    /\ handed' = HandedAfter(queue', queue, handed)
    /\ backend' = "starting"
    /\ last' = [op |-> "start_backend",
                reset |-> {i \in DOMAIN queue : queue[i].status = "Processing"}]
    /\ UNCHANGED <<next_id, indexed, now, user_settings, pc, sel, plugin_vars>>

\* start_backend, the tokio::spawn calls: scheduler, workers, api
spawn_tasks ==
    /\ backend = "starting"
    /\ backend' = "running"
    /\ last' = [op |-> "spawn_tasks"]
    /\ loop_pc' = "load"
    /\ UNCHANGED <<queue, next_id, indexed, now, user_settings, pc, sel, handed>>
    /\ UNCHANGED <<plugins, check_update_subs, cmd_queue, pending, delivered>>
    /\ UNCHANGED <<file_watch_subs, watched, fs, file_events, shutdown_rx, observed>>

\* ctrl-c or a crash: the tasks end where they are, the rows stay
Shutdown ==
    /\ backend = "running"
    /\ backend' = "down"
    /\ pc' = [c \in Callers |-> "idle"]
    /\ sel' = [c \in Callers |-> NoSel]
    /\ last' = [op |-> "shutdown"]
    /\ plugins' = <<>>
    /\ check_update_subs' = {}
    /\ cmd_queue' = <<>>
    /\ loop_pc' = "off"
    /\ pending' = <<>>
    /\ delivered' = <<>>
    /\ file_watch_subs' = <<>>
    /\ watched' = {}
    /\ file_events' = <<>>
    /\ shutdown_rx' = "unsubscribed"
    /\ observed' = 0
    /\ UNCHANGED fs
    /\ UNCHANGED <<queue, next_id, indexed, now, user_settings, handed>>

\* ----------------------------------------------------------- environment
Tick ==
    /\ now < MaxTime
    /\ now' = now + 1
    /\ last' = [op |-> "tick"]
    /\ UNCHANGED <<queue, next_id, indexed, user_settings, backend, pc, sel, handed, plugin_vars>>

\* the crawler stores a fetched document
IndexDocument(u) ==
    /\ backend = "running"
    /\ u \notin indexed
    /\ Cardinality(indexed) < MaxIndexed
    /\ indexed' = indexed \cup {u}
    /\ last' = [op |-> "index_document"]
    /\ UNCHANGED <<queue, next_id, now, user_settings, backend, pc, sel, handed, plugin_vars>>

\* ---------------------------------------------------------------- inputs
CrawlTypes == {"Normal", "Bootstrap", "API"}

LensAB == LensConfig({"a.com", "b.com"}, {Url("file", "", <<"/">>, "")}, {})

\* what a call of enqueue_all is given besides the urls
FilterInput(ls, bl, ext, force) ==
    [lenses |-> ls, block_list |-> bl, crawl_external_links |-> ext, force_allow |-> force]

FilterInputs ==
    {FilterInput({LensAB}, {}, FALSE, FALSE),
     FilterInput({}, {"b.com"}, TRUE, FALSE)}

Overrides(ct, force, rc) == [crawl_type |-> ct, force_allow |-> force, is_recrawl |-> rc]

EnqueueFrom(batches, filters, types, recrawls) ==
    \E urls \in batches, f \in filters, ct \in types, rc \in recrawls :
        enqueue_all(urls, f.lenses, f, Overrides(ct, f.force_allow, rc), "none")

Dequeue == dequeue(1)

DequeueRecrawl == dequeue_recrawl(1)

MarkDone == \E id \in Ids : mark_done(id)

MarkFailed == \E id \in Ids, retry \in BOOLEAN : mark_failed(id, retry)

GiveUp == \E id \in Ids : mark_failed(id, FALSE)

LikeRules == {Pattern("prefix", U_ax, 0), Pattern("prefix", U_b, 0)}

RemoveByRule == \E rule \in LikeRules : remove_by_rule(rule)

UpdateOrRemove == \E id \in Ids, url \in {U_a, U_a0, U_b} : update_or_remove_task(id, url)

\* ------------------------------------------------------- specifications
InitWith(settings) ==
    /\ queue = <<>>
    /\ next_id = 1
    /\ indexed = {}
    /\ now = 0
    /\ user_settings \in settings
    /\ backend = "down"
    /\ pc = [c \in Callers |-> "idle"]
    /\ sel = [c \in Callers |-> NoSel]
    /\ handed = <<>>
    /\ last = [op |-> "init"]
    /\ plugins = <<>>
    /\ check_update_subs = {}
    /\ cmd_queue = <<>>
    /\ loop_pc = "off"
    /\ pending = <<>>
    /\ delivered = <<>>
    /\ file_watch_subs = <<>>
    /\ watched = {}
    /\ fs = {<<"f">>, <<"a", "x">>}
    /\ file_events = <<>>
    /\ shutdown_rx = "unsubscribed"
    /\ observed = 0

\* The scheduler: tasks of every crawl type in two domains are enqueued,
\* dequeued by one caller and reported done by the crawler, which indexes
\* documents.
Init == InitWith({Settings(Limit(TRUE, 2), 1, 1), Settings(Limit(FALSE, 0), 2, 2)})

EnqueueTask ==
    EnqueueFrom({<<U_a>>, <<U_ax>>, <<U_b>>}, {FilterInput({LensAB}, {}, FALSE, FALSE)},
                CrawlTypes, {FALSE})

IndexPage == \E u \in {U_ax, U_b} : IndexDocument(u)

Next ==
    \/ start_backend
    \/ spawn_tasks
    \/ EnqueueTask
    \/ Dequeue
    \/ MarkDone
    \/ IndexPage
    \/ Tick

Spec == Init /\ [][Next]_vars

TypeOK ==
    /\ DOMAIN queue \subseteq Ids
    /\ next_id \in 1..(MaxId + 1)
    /\ now \in 0..MaxTime
    /\ \A i \in DOMAIN queue : queue[i].status \in {"Queued", "Processing", "Completed", "Failed"}

\* ------------------------------------------------- claims on the scheduler
ReturnedBy(name, id) == last'.op = name /\ last'.ret = id

QueuedIn(q) == {i \in DOMAIN q : q[i].status = "Queued"}

UnderInflightDomainLimit(i) ==
    Cardinality({j \in DOMAIN queue :
                    queue[j].status = "Processing" /\ queue[j].domain = queue[i].domain})
        < user_settings.inflight_domain_limit

UnderDomainCrawlLimit(i) ==
    Cardinality({u \in indexed : DomainOf(u) = queue[i].domain})
        < user_settings.domain_crawl_limit

\* C2 as stated: every task a dequeue returns, Bootstrap tasks included, was
\* selected while its domain had fewer than inflight_domain_limit tasks in
\* Processing.
C2_AnyTypeUnderInflightDomainLimit ==
    [][\A id \in Ids : ReturnedBy("dequeue", id) => UnderInflightDomainLimit(id)]_vars

\* C2: every Normal or API task a dequeue returns was selected while its domain
\* had fewer than inflight_domain_limit tasks in Processing.
C2_NonBootstrapUnderInflightDomainLimit ==
    [][\A id \in Ids :
          ReturnedBy("dequeue", id) /\ queue[id].crawl_type # "Bootstrap"
              => UnderInflightDomainLimit(id)]_vars

\* a Normal or API task was returned while another Queued task had to stay
\* behind because its domain is at the in-flight limit
C2_Witness ==
    /\ last.op = "dequeue"
    /\ last.ret # None
    /\ queue[last.ret].crawl_type # "Bootstrap"
    /\ \E j \in QueuedIn(queue) : ~ UnderInflightDomainLimit(j)

\* C3 as stated: every task a dequeue returns, Bootstrap tasks included, is in
\* a domain below domain_crawl_limit, and dequeue returns None and changes
\* nothing when every Queued task is in a domain at or over the limit.
C3_AnyTypeUnderDomainCrawlLimit ==
    [][/\ \A id \in Ids : ReturnedBy("dequeue", id) => UnderDomainCrawlLimit(id)
       /\ (last'.op = "dequeue" /\ \A i \in QueuedIn(queue) : ~ UnderDomainCrawlLimit(i))
              => last'.ret = None /\ queue' = queue]_vars

\* C3: every Normal or API task a dequeue returns is in a domain below
\* domain_crawl_limit; when no Bootstrap task is Queued and every Queued task is
\* in a domain at or over the limit, dequeue returns None and changes nothing.
C3_NonBootstrapUnderDomainCrawlLimit ==
    [][/\ \A id \in Ids :
             ReturnedBy("dequeue", id) /\ queue[id].crawl_type # "Bootstrap"
                 => UnderDomainCrawlLimit(id)
       /\ (/\ last'.op = "dequeue"
           /\ \A i \in QueuedIn(queue) :
                  queue[i].crawl_type # "Bootstrap" /\ ~ UnderDomainCrawlLimit(i))
              => last'.ret = None /\ queue' = queue /\ indexed' = indexed]_vars

\* dequeue returned None although a task is Queued, the global cap is not
\* reached and no domain is at its in-flight limit: only the indexed-document
\* limit holds the task back
C3_Witness ==
    /\ last.op = "dequeue"
    /\ last.ret = None
    /\ QueuedIn(queue) # {}
    /\ ~ InflightLimitReached(queue, user_settings)
    /\ \A i \in QueuedIn(queue) : UnderInflightDomainLimit(i) /\ ~ UnderDomainCrawlLimit(i)

\* C4: when a Bootstrap task is Queued and the global in-flight cap is not
\* reached, dequeue returns a task and that task is a Bootstrap task.
C4_BootstrapPrecedence ==
    [][(/\ last'.op = "dequeue"
        /\ \E i \in QueuedIn(queue) : queue[i].crawl_type = "Bootstrap"
        /\ ~ (/\ user_settings.inflight_crawl_limit.finite
              /\ Cardinality({i \in DOMAIN queue : queue[i].status = "Processing"})
                     >= user_settings.inflight_crawl_limit.n))
          => /\ last'.ret # None
             /\ queue[last'.ret].crawl_type = "Bootstrap"]_vars

\* a Bootstrap task was returned ahead of a Normal or API task that is still
\* Queued and was enqueued no later
C4_Witness ==
    /\ last.op = "dequeue"
    /\ last.ret # None
    /\ queue[last.ret].crawl_type = "Bootstrap"
    /\ \E j \in QueuedIn(queue) :
          /\ queue[j].crawl_type # "Bootstrap"
          /\ queue[j].updated_at <= queue[last.ret].created_at

\* C6: a task returned by dequeue was Queued when it was selected and its row
\* is Processing when the call returns.
C6_ReturnedIsProcessing ==
    [][\A id \in Ids :
          ReturnedBy("dequeue", id)
              => /\ id \in DOMAIN queue /\ queue[id].status = "Queued"
                 /\ id \in DOMAIN queue' /\ queue'[id].status = "Processing"]_vars

\* C6 witness: dequeue has just returned a task, which is now Processing.
C6_Witness ==
    /\ last.op = "dequeue"
    /\ last.ret # None
    /\ queue[last.ret].status = "Processing"

EligibleQueued ==
    {i \in QueuedIn(queue) : UnderInflightDomainLimit(i) /\ UnderDomainCrawlLimit(i)}

\* C7 as stated: the task a dequeue returns has the smallest updated_at among
\* the eligible Queued tasks of its crawl type, and a Normal or API task is
\* returned only when no Bootstrap task is Queued.
C7_FifoWithinEveryClass ==
    [][\A id \in Ids :
          ReturnedBy("dequeue", id)
              => /\ \A j \in EligibleQueued :
                       queue[j].crawl_type = queue[id].crawl_type
                           => queue[id].updated_at <= queue[j].updated_at
                 /\ queue[id].crawl_type # "Bootstrap"
                        => \A j \in QueuedIn(queue) : queue[j].crawl_type # "Bootstrap"]_vars

\* C7: a Normal or API task a dequeue returns has the smallest updated_at among
\* all eligible Queued tasks, and is returned only when no Bootstrap task is
\* Queued.
C7_FifoAmongNonBootstrap ==
    [][\A id \in Ids :
          ReturnedBy("dequeue", id) /\ queue[id].crawl_type # "Bootstrap"
              => /\ \A j \in EligibleQueued : queue[id].updated_at <= queue[j].updated_at
                 /\ \A j \in QueuedIn(queue) : queue[j].crawl_type # "Bootstrap"]_vars

\* a Normal or API task was returned and an eligible task updated later than
\* the returned one was enqueued is still Queued
C7_Witness ==
    /\ last.op = "dequeue"
    /\ last.ret # None
    /\ queue[last.ret].crawl_type # "Bootstrap"
    /\ \E j \in EligibleQueued : queue[j].updated_at > queue[last.ret].created_at

\* ------------------------------------------------- concurrent callers
\* Two callers run dequeue and dequeue_recrawl on the same connection, each
\* await a step; the crawler reports tasks done or failed in between.
InitConc == InitWith({Settings(Limit(TRUE, 1), 2, 2)})

EnqueuePages ==
    EnqueueFrom({<<U_a>>, <<U_b>>, <<U_file>>}, {FilterInput({LensAB}, {}, FALSE, FALSE)},
                {"Normal"}, {FALSE})

CallerStep ==
    \E c \in Callers :
        \/ DequeueCount(c)
        \/ DequeuePick(c)
        \/ DequeueClaim(c)
        \/ RecrawlCount(c)
        \/ RecrawlPick(c)
        \/ RecrawlClaim(c)

NextConc ==
    \/ start_backend
    \/ spawn_tasks
    \/ EnqueuePages
    \/ CallerStep
    \/ MarkDone
    \/ GiveUp
    \/ Tick

SpecConc == InitConc /\ [][NextConc]_vars

\* C1: with inflight_crawl_limit = Finite(L) the number of Processing tasks
\* never exceeds L.
C1_GlobalInflightCap ==
    user_settings.inflight_crawl_limit.finite
        => Cardinality({i \in DOMAIN queue : queue[i].status = "Processing"})
               <= user_settings.inflight_crawl_limit.n

\* C5: a task is handed to at most one caller of dequeue or dequeue_recrawl
\* between two reports of it.
C5_HandedToOneCaller == \A i \in DOMAIN handed : handed[i] <= 1

\* --------------------------------------------------------- the queue store
\* Urls in every form are enqueued, with and without is_recrawl, renamed to
\* their canonical url and removed by rule.
InitStore == InitWith({Settings(Limit(FALSE, 0), 2, 2)})

Batches ==
    {<<U_a>>, <<U_ax>>, <<U_b>>, <<U_file>>, <<U_af, U_a>>, <<U_bad, U_ftp, U_b>>}

EnqueueUrls == EnqueueFrom(Batches, FilterInputs, {"Normal"}, BOOLEAN)

NextStore ==
    \/ start_backend
    \/ spawn_tasks
    \/ EnqueueUrls
    \/ Dequeue
    \/ MarkDone
    \/ UpdateOrRemove
    \/ RemoveByRule
    \/ IndexPage

SpecStore == InitStore /\ [][NextStore]_vars

\* C8: no two rows of the queue share a url.
C8_UrlUnique ==
    \A i \in DOMAIN queue : \A j \in DOMAIN queue : queue[i].url = queue[j].url => i = j

\* a url that has a row, and is not the newest row, was enqueued again, twice
\* in one batch (with and without its fragment)
C8_Witness ==
    /\ last.op = "enqueue_all"
    /\ last.urls = <<U_af, U_a>>
    /\ ~ last.is_recrawl
    /\ Cardinality(IdsWithUrl(queue, U_a)) = 1
    /\ \E i \in IdsWithUrl(queue, U_a) : \E j \in DOMAIN queue : j > i

\* C11: enqueue_all with is_recrawl = true, for every url it accepts whose row
\* is Completed, leaves that row Queued, and the url still has exactly one row.
C11_RecrawlRequeuesCompleted ==
    [][(last'.op = "enqueue_all" /\ last'.is_recrawl)
          => \A u \in last'.added :
                (\E i \in IdsWithUrl(queue, u) : queue[i].status = "Completed")
                    => /\ Cardinality(IdsWithUrl(queue', u)) = 1
                       /\ IdsWithUrl(queue', u) = IdsWithUrl(queue, u)
                       /\ \A i \in IdsWithUrl(queue', u) : queue'[i].status = "Queued"]_vars

\* a recrawl enqueue has just met a Completed row of its url, now Queued
C11_Witness ==
    /\ last.op = "enqueue_all"
    /\ last.is_recrawl
    /\ last.requeued # {}
    /\ \A i \in last.requeued : i \in DOMAIN queue /\ queue[i].status = "Queued"

\* C12: a call of update_or_remove_task that repeats the call before it, with
\* the same id and url, leaves every row as the first call left it and
\* returns the same task.
C12_UpdateOrRemoveIdempotent ==
    [][(last'.op = "update_or_remove_task" /\ last'.again)
          => /\ queue' = queue
             /\ last'.ret = last.ret]_vars

\* the call was repeated after it had removed the task: the task is gone
\* and the task that has the url is returned again
C12_Witness ==
    /\ last.op = "update_or_remove_task"
    /\ last.again
    /\ ~ last.found
    /\ last.ret \in DOMAIN queue
    /\ last.ret # last.id
    /\ last.id < next_id

\* C13: update_or_remove_task(id, url) on a task that exists: when another
\* task has the url, the task id is deleted, the other task is returned as it
\* was and there is one row less; otherwise the task keeps its id, has the
\* url, is returned, and the number of rows is the same.
C13_RemoveOnConflictElseRename ==
    [][(last'.op = "update_or_remove_task" /\ last'.id \in DOMAIN queue)
          => LET id == last'.id
                 others == IdsWithUrl(queue, last'.url) \ {id}
             IN  IF others # {}
                 THEN /\ last'.ret \in others
                      /\ queue' = [i \in DOMAIN queue \ {id} |-> queue[i]]
                      /\ Cardinality(DOMAIN queue') = Cardinality(DOMAIN queue) - 1
                 ELSE /\ last'.ret = id
                      /\ DOMAIN queue' = DOMAIN queue
                      /\ queue'[id].url = last'.url
                      /\ queue'[id].status = queue[id].status
                      /\ \A i \in DOMAIN queue \ {id} : queue'[i] = queue[i]]_vars

\* the task had a row, another task had the url: the task is gone and the
\* other task was returned
C13_Witness ==
    /\ last.op = "update_or_remove_task"
    /\ last.found
    /\ ~ last.again
    /\ last.id \notin DOMAIN queue
    /\ last.ret \in DOMAIN queue
    /\ queue[last.ret].url = last.url

\* C14 as stated: update_or_remove_task(id, url) with no task of that id
\* returns the task-not-found error and changes nothing, whether or not
\* another task has the url.
C14_MissingIdAlwaysFails ==
    [][(last'.op = "update_or_remove_task" /\ last'.id \notin DOMAIN queue)
          => /\ last'.ret = TaskNotFound
             /\ queue' = queue]_vars

\* C14: update_or_remove_task(id, url) with no task of that id changes
\* nothing; it returns the task-not-found error when no task has the url,
\* and the task that has the url otherwise.
C14_MissingIdFailsUnlessUrlTaken ==
    [][(last'.op = "update_or_remove_task" /\ last'.id \notin DOMAIN queue)
          => /\ queue' = queue
             /\ IF IdsWithUrl(queue, last'.url) = {}
                THEN last'.ret = TaskNotFound
                ELSE last'.ret \in IdsWithUrl(queue, last'.url)]_vars

\* the call with an id that has no row and a url that no task has
C14_Witness ==
    /\ last.op = "update_or_remove_task"
    /\ ~ last.found
    /\ last.ret = TaskNotFound
    /\ queue # <<>>

WithoutFragment(u) == [u EXCEPT !.frag = ""]

\* C15: after enqueue_all every row it inserted has a url without fragment,
\* in the form Url::parse gives it, with scheme http, https, file or api; and
\* two of its input urls that differ only by the fragment have at most one
\* row between them.
C15_InsertedUrlsCanonical ==
    last.op = "enqueue_all"
        => /\ \A i \in last.new :
                 /\ i \in DOMAIN queue
                 /\ queue[i].url.frag = ""
                 /\ queue[i].url = Parse(queue[i].url)
                 /\ SchemeOk(queue[i].url)
           /\ \A j \in DOMAIN last.urls : \A k \in DOMAIN last.urls :
                 (j # k /\ WithoutFragment(last.urls[j]) = WithoutFragment(last.urls[k]))
                     => Cardinality({i \in DOMAIN queue :
                            WithoutFragment(queue[i].url) = WithoutFragment(last.urls[j])}) <= 1

\* the batch of a url with and without its fragment has just inserted a row
C15_Witness ==
    /\ last.op = "enqueue_all"
    /\ last.urls = <<U_af, U_a>>
    /\ Cardinality(last.new) = 1
    /\ \A i \in last.new : queue[i].url = U_a

\* C19: remove_by_rule(rule) deletes the rows whose url matches the rule,
\* of every status, and no other row; the rows that stay are unchanged and
\* the number of deleted rows is returned.
C19_RemoveByRuleExact ==
    [][last'.op = "remove_by_rule"
          => LET matching == {i \in DOMAIN queue :
                                 /\ queue[i].url.scheme = last'.rule.url.scheme
                                 /\ queue[i].url.host = last'.rule.url.host
                                 /\ IsPrefix(last'.rule.url.path, queue[i].url.path)}
             IN  /\ DOMAIN queue' = DOMAIN queue \ matching
                 /\ \A i \in DOMAIN queue' : queue'[i] = queue[i]
                 /\ last'.ret = Cardinality(matching)]_vars

\* a rule has removed a task that was not Queued and left a task it does not
\* match
C19_Witness ==
    /\ last.op = "remove_by_rule"
    /\ last.ret = 1
    /\ last.statuses \cap {"Processing", "Completed"} # {}
    /\ queue # <<>>
    /\ \A i \in DOMAIN queue : ~ Matches(last.rule, queue[i].url)

\* ------------------------------------------------------ admission filter
\* filter_urls is a function of its arguments: a call is drawn, the filter is
\* applied to it, and applied again with one more domain on the block list.
Domains == {"a.com", "b.com"}

LensSkip == LensConfig({"a.com"}, {}, {SkipURL(U_ax)})

LensDepth == LensConfig({}, {U_a}, {LimitURLDepth(U_a, 0)})

LensSets == {{}, {LensAB}, {LensSkip}, {LensAB, LensSkip}, {LensDepth}}

UrlBatches ==
    {<<U_a, U_ax, U_b>>, <<U_af, U_a0, U_file>>, <<U_ftp, U_bad, U_b, U_ax>>}

FilterCall(op, urls, f, before) ==
    [op |-> op, urls |-> urls, lenses |-> f.lenses, block_list |-> f.block_list,
     crawl_external_links |-> f.crawl_external_links, force_allow |-> f.force_allow,
     before |-> before,
     ret |-> filter_urls(f.lenses, f, Overrides("Normal", f.force_allow, FALSE), urls)]

InitFilter == InitWith({Settings(Limit(FALSE, 0), 2, 2)})

FilterUrls ==
    /\ last.op = "init"
    /\ \E urls \in UrlBatches, ls \in LensSets, bl \in SUBSET Domains,
          ext \in BOOLEAN, force \in BOOLEAN :
          last' = FilterCall("filter_urls", urls, FilterInput(ls, bl, ext, force), <<>>)
    /\ UNCHANGED <<queue, next_id, indexed, now, user_settings, backend, pc, sel, handed, plugin_vars>>

\* the same call with one more domain on settings.block_list
BlockDomain ==
    /\ last.op \in {"filter_urls", "block_domain"}
    /\ \E d \in Domains \ last.block_list :
          last' = FilterCall("block_domain", last.urls,
                             FilterInput(last.lenses, last.block_list \cup {d},
                                         last.crawl_external_links, last.force_allow),
                             last.ret)
    /\ UNCHANGED <<queue, next_id, indexed, now, user_settings, backend, pc, sel, handed, plugin_vars>>

NextFilter == FilterUrls \/ BlockDomain

SpecFilter == InitFilter /\ [][NextFilter]_vars

\* C16: with the lenses, the overrides and the urls fixed, every url that
\* filter_urls accepts with one more domain on the block list was accepted
\* without it.
C16_BlockListMonotone ==
    last.op = "block_domain" => Range(last.ret) \subseteq Range(last.before)

\* a domain was blocked and the filter accepts less than before, not nothing
C16_Witness ==
    /\ last.op = "block_domain"
    /\ Range(last.ret) # Range(last.before)
    /\ last.ret # <<>>

SkipPatterns(lenses, block_list) ==
    {regex_for_domain(d) : d \in block_list}
        \cup {to_regex(r) : r \in UNION {{x \in l.rules : x.rule = "SkipURL"} : l \in lenses}}

\* C17: filter_urls returns no url that matches a skip pattern (a block_list
\* domain or a SkipURL rule of a lens), whatever the allow list,
\* force_allow and crawl_external_links are.
C17_SkipBeatsAllow ==
    last.op \in {"filter_urls", "block_domain"}
        => /\ \A u \in Range(last.ret) :
                 ~ is_match(SkipPatterns(last.lenses, last.block_list), u)
           /\ \A k \in DOMAIN last.urls :
                 (/\ ParseOk(last.urls[k])
                  /\ is_match(SkipPatterns(last.lenses, last.block_list),
                              WithoutFragment(Parse(last.urls[k]))))
                     => WithoutFragment(Parse(last.urls[k])) \notin Range(last.ret)

\* a url on the allow list, with force_allow and crawl_external_links set,
\* matches a SkipURL rule and is not returned, while other urls are
C17_Witness ==
    /\ last.op = "filter_urls"
    /\ last.crawl_external_links
    /\ last.force_allow
    /\ last.lenses = {LensAB, LensSkip}
    /\ U_ax \in Range(last.urls)
    /\ U_ax \notin Range(last.ret)
    /\ U_a \in Range(last.ret)

RestrictPatterns(lenses) ==
    {to_regex(r) : r \in UNION {{x \in l.rules : x.rule = "LimitURLDepth"} : l \in lenses}}

AllowPatterns(lenses) ==
    UNION {{regex_for_domain(d) : d \in l.domains}
              \cup {regex_for_prefix(u) : u \in l.urls} : l \in lenses}

\* C33: with a restrict list that is not empty filter_urls returns only urls
\* that match a restrict pattern, whatever force_allow, crawl_external_links
\* and the allow list are; with an empty restrict list it returns every url
\* it can parse, of a scheme it handles, that no skip pattern matches and
\* that is admitted by crawl_external_links, force_allow or the allow list.
C33_RestrictListIsMandatory ==
    last.op \in {"filter_urls", "block_domain"}
        => IF RestrictPatterns(last.lenses) # {}
           THEN \A u \in Range(last.ret) : is_match(RestrictPatterns(last.lenses), u)
           ELSE \A k \in DOMAIN last.urls :
                   (/\ ParseOk(last.urls[k])
                    /\ SchemeOk(Parse(last.urls[k]))
                    /\ ~ is_match(SkipPatterns(last.lenses, last.block_list),
                                  WithoutFragment(Parse(last.urls[k])))
                    /\ \/ last.crawl_external_links
                       \/ last.force_allow
                       \/ is_match(AllowPatterns(last.lenses),
                                   WithoutFragment(Parse(last.urls[k]))))
                       => WithoutFragment(Parse(last.urls[k])) \in Range(last.ret)

\* with force_allow and crawl_external_links set, a url on the allow list
\* and a url of another host are dropped by a LimitURLDepth rule that a
\* third url passes
C33_Witness ==
    /\ last.op = "filter_urls"
    /\ last.crawl_external_links
    /\ last.force_allow
    /\ last.lenses = {LensDepth}
    /\ last.block_list = {}
    /\ last.urls = <<U_a, U_ax, U_b>>
    /\ last.ret = <<U_a>>

\* ------------------------------------------------------------- recrawl
\* Local files and a page are crawled; the recrawler asks for files whose
\* crawl is a day old.
InitRecrawl == InitWith({Settings(Limit(TRUE, 1), 2, 2), Settings(Limit(FALSE, 0), 2, 2)})

EnqueueFiles ==
    EnqueueFrom({<<U_file>>, <<U_file2>>, <<U_a>>}, {FilterInput({LensAB}, {}, FALSE, FALSE)},
                {"Normal"}, {FALSE})

NextRecrawl ==
    \/ start_backend
    \/ spawn_tasks
    \/ EnqueueFiles
    \/ Dequeue
    \/ DequeueRecrawl
    \/ MarkDone
    \/ Tick

SpecRecrawl == InitRecrawl /\ [][NextRecrawl]_vars

\* the Completed file:// tasks last updated a day or more before now
DueForRecrawl(q, t) ==
    {i \in DOMAIN q : /\ q[i].status = "Completed"
                      /\ q[i].url.scheme = "file"
                      /\ t - q[i].updated_at >= TicksPerDay}

\* C18: a task that dequeue_recrawl returns is the oldest-updated of the
\* Completed file:// tasks updated a day or more ago, and it is moved to
\* Processing; dequeue_recrawl returns None and changes nothing when there is
\* no such task, and returns one when there is and the global in-flight limit
\* is not reached.
C18_RecrawlOldestCompletedFile ==
    [][last'.op = "dequeue_recrawl"
          => LET due == DueForRecrawl(queue, now)
                 id == last'.ret
             IN  IF id = None
                 THEN /\ queue' = queue
                      /\ due # {}
                             => /\ user_settings.inflight_crawl_limit.finite
                                /\ num_tasks_in_progress(queue)
                                       >= user_settings.inflight_crawl_limit.n
                 ELSE /\ id \in due
                      /\ \A j \in due : queue[id].updated_at <= queue[j].updated_at
                      /\ queue' = [queue EXCEPT ![id].status = "Processing",
                                                ![id].updated_at = now]]_vars

\* dequeue_recrawl has returned a file task and left a Completed file task
\* that was updated after it
C18_Witness ==
    /\ last.op = "dequeue_recrawl"
    /\ last.ret # None
    /\ queue[last.ret].status = "Processing"
    /\ queue[last.ret].url.scheme = "file"
    /\ \E j \in DOMAIN queue :
          /\ j # last.ret
          /\ queue[j].status = "Completed"
          /\ queue[j].url.scheme = "file"

\* ------------------------------------------------------------- retries
\* The crawler reports every task it is given as failed or done.
InitRetry == InitWith({Settings(Limit(FALSE, 0), 2, 2)})

EnqueuePage ==
    EnqueueFrom({<<U_a>>, <<U_b>>}, {FilterInput({LensAB}, {}, FALSE, FALSE)},
                {"Normal"}, {FALSE})

NextRetry ==
    \/ start_backend
    \/ spawn_tasks
    \/ EnqueuePage
    \/ Dequeue
    \/ MarkDone
    \/ MarkFailed

SpecRetry == InitRetry /\ [][NextRetry]_vars

Min(a, b) == IF a <= b THEN a ELSE b

InitStart == InitWith({Settings(Limit(TRUE, 2), 1, 1)})

NextStart ==
    \/ start_backend
    \/ spawn_tasks
    \/ Shutdown
    \/ EnqueueTask
    \/ Dequeue
    \/ MarkDone
    \/ Tick

SpecStart == InitStart /\ [][NextStart]_vars

\* C10: once start_backend has run reset_processing, and until the tasks are
\* spawned, no row is Processing and every row that was Processing is Queued.
C10_NoProcessingAfterReset ==
    /\ backend = "starting" => \A i \in DOMAIN queue : queue[i].status # "Processing"
    /\ last.op = "start_backend"
           => \A i \in last.reset : i \in DOMAIN queue /\ queue[i].status = "Queued"
    /\ (last.op = "dequeue" /\ last.ret # None) => backend = "running"

\* the backend starts again with a task that was in flight
C10_Witness ==
    /\ backend = "starting"
    /\ last.op = "start_backend"
    /\ last.reset # {}

\* ------------------------------------------------------------ plugin host
\* plugin_event_loop and the PluginManager it works on.  A command is a
\* record with its name in cmd.  The loop takes one command at a time; a
\* command it sends itself goes to the channel it reads from, and the send
\* waits while the channel is full.
PluginNames == {"p", "q"}

PluginConfig(name, enabled) == [name |-> name, is_enabled |-> enabled]

Initialize(config) == [cmd |-> "Initialize", config |-> config]

DisablePlugin(name) == [cmd |-> "DisablePlugin", name |-> name]

EnablePlugin(name) == [cmd |-> "EnablePlugin", name |-> name]

HandleUpdate(plugin_id, event) ==
    [cmd |-> "HandleUpdate", plugin_id |-> plugin_id, event |-> event]

Subscribe(plugin_id, sub) == [cmd |-> "Subscribe", plugin_id |-> plugin_id, sub |-> sub]

\* PluginSubscription
CheckUpdateInterval == [kind |-> "CheckUpdateInterval"]

WatchDirectory(path, recurse) ==
    [kind |-> "WatchDirectory", path |-> path, recurse |-> recurse]

\* PluginEvent; n counts the events in the order the loop made them
PluginEvent(kind, path, n) == [kind |-> kind, path |-> path, n |-> n]

Count(seq, name) == Cardinality({i \in DOMAIN seq : seq[i].cmd = name})

CountSubscribe(seq, kind) ==
    Cardinality({i \in DOMAIN seq : seq[i].cmd = "Subscribe" /\ seq[i].sub.kind = kind})

\* the plugin instances that the commands on their way can still create
InstancesToCome ==
    Cardinality(DOMAIN plugins)
        + Count(cmd_queue, "Initialize") + Count(pending, "Initialize")
        + Count(cmd_queue, "EnablePlugin")

\* the plugins that watch a directory or have asked to
WatchersToCome ==
    DOMAIN file_watch_subs
        \cup {cmd_queue[i].plugin_id :
                 i \in {k \in DOMAIN cmd_queue :
                           /\ cmd_queue[k].cmd = "Subscribe"
                           /\ cmd_queue[k].sub.kind = "WatchDirectory"}}

\* the events made so far and those the commands and file events on their
\* way can still make
UpdatesToCome ==
    observed
        + CountSubscribe(cmd_queue, "CheckUpdateInterval")
        + (IF file_events = <<>> THEN 0 ELSE Cardinality(WatchersToCome))

\* PluginManager::find_by_name: the entries the iteration may meet first
find_by_name(ps, name) == {i \in DOMAIN ps : ps[i].name = name}

\* mutant: update without the test of is_enabled
update_Always(plugin, plugin_id, event, log) ==
    Append(log, [plugin_id |-> plugin_id, event |-> event])

\* PluginInstance::update: the event is written to stdin and update is called
update(plugin, plugin_id, event, log) ==
    IF ~ plugin.is_enabled
    THEN log
    ELSE Append(log, [plugin_id |-> plugin_id, event |-> event])

\* mutant: a channel that gives the newest command first
Enqueue_Front(channel, command) == <<command>> \o channel

\* mpsc::Sender::send on a channel with room
Enqueue(channel, command) == Append(channel, command)

\* the end of a turn of the loop: what it has to send decides where it goes.
\* The loop subscribes to the shutdown broadcast when plugin_load has sent
\* its last command.
AfterCommand(to_send) ==
    /\ pending' = to_send
    /\ loop_pc' = IF to_send = <<>> THEN "recv" ELSE "send"
    /\ shutdown_rx' = IF to_send = <<>> /\ shutdown_rx = "unsubscribed"
                      THEN "empty"
                      ELSE shutdown_rx

StoreUnchanged ==
    UNCHANGED <<queue, next_id, indexed, now, user_settings, backend, pc, sel, handed>>

WatchUnchanged == UNCHANGED <<file_watch_subs, watched, fs, file_events>>

\* plugin_load: an Initialize for every plugin found on disk
plugin_load ==
    /\ backend = "running"
    /\ loop_pc = "load"
    /\ \E enabled \in [PluginNames -> BOOLEAN] :
          \E order \in {<<"p", "q">>, <<"q", "p">>, <<"p">>} :
             AfterCommand([i \in DOMAIN order |->
                              Initialize(PluginConfig(order[i], enabled[order[i]]))])
    /\ last' = [op |-> "plugin_load"]
    /\ UNCHANGED <<plugins, check_update_subs, cmd_queue, delivered, observed>>
    /\ WatchUnchanged
    /\ StoreUnchanged

\* cmd_writer.send(..).await inside the loop
LoopSend ==
    /\ backend = "running"
    /\ loop_pc = "send"
    /\ Len(cmd_queue) < MaxQueued
    /\ cmd_queue' = Enqueue(cmd_queue, Head(pending))
    /\ AfterCommand(Tail(pending))
    /\ last' = [op |-> "send", cmd |-> Head(pending)]
    /\ UNCHANGED <<plugins, check_update_subs, delivered, observed>>
    /\ WatchUnchanged
    /\ StoreUnchanged

\* cmd_queue.recv() has a command for the match
Receives(name) ==
    /\ backend = "running"
    /\ loop_pc = "recv"
    /\ cmd_queue # <<>>
    /\ Head(cmd_queue).cmd = name
    /\ cmd_queue' = Tail(cmd_queue)

HandleDisablePlugin ==
    /\ Receives("DisablePlugin")
    /\ LET found == find_by_name(plugins, Head(cmd_queue).name)
       IN  IF found = {}
           THEN UNCHANGED <<plugins, check_update_subs>>
           ELSE \E id \in found :
                   /\ plugins' = [plugins EXCEPT ![id].is_enabled = FALSE]
                   /\ check_update_subs' = check_update_subs \ {id}
    /\ AfterCommand(<<>>)
    /\ last' = [op |-> "DisablePlugin", name |-> Head(cmd_queue).name]
    /\ UNCHANGED <<delivered, observed>>
    /\ WatchUnchanged
    /\ StoreUnchanged

HandleEnablePlugin ==
    /\ Receives("EnablePlugin")
    /\ LET found == find_by_name(plugins, Head(cmd_queue).name)
       IN  IF found = {}
           THEN /\ UNCHANGED plugins
                /\ AfterCommand(<<>>)
           ELSE \E id \in found :
                   /\ plugins' = [plugins EXCEPT ![id].is_enabled = TRUE]
                   /\ AfterCommand(<<Initialize(plugins'[id])>>)
    /\ last' = [op |-> "EnablePlugin", name |-> Head(cmd_queue).name]
    /\ UNCHANGED <<check_update_subs, delivered, observed>>
    /\ WatchUnchanged
    /\ StoreUnchanged

\* last.enabled is the flag of the plugin when the command was handled
HandleHandleUpdate ==
    /\ Receives("HandleUpdate")
    /\ LET plugin_id == Head(cmd_queue).plugin_id
           event == Head(cmd_queue).event
       IN  /\ delivered' = IF plugin_id \in DOMAIN plugins
                           THEN update(plugins[plugin_id], plugin_id, event, delivered)
                           ELSE delivered
           /\ last' = [op |-> "HandleUpdate", plugin_id |-> plugin_id, event |-> event,
                       enabled |-> plugin_id \in DOMAIN plugins
                                      /\ plugins[plugin_id].is_enabled]
    /\ AfterCommand(<<>>)
    /\ UNCHANGED <<plugins, check_update_subs, observed>>
    /\ WatchUnchanged
    /\ StoreUnchanged

\* plugin_init gives the instance, or an error and no entry
HandleInitialize ==
    /\ Receives("Initialize")
    /\ \/ plugins' = (Cardinality(DOMAIN plugins) :> Head(cmd_queue).config) @@ plugins
       \/ UNCHANGED plugins
    /\ AfterCommand(<<>>)
    /\ last' = [op |-> "Initialize", config |-> Head(cmd_queue).config]
    /\ UNCHANGED <<check_update_subs, delivered, observed>>
    /\ WatchUnchanged
    /\ StoreUnchanged

\* Subscribe(plugin_id, CheckUpdateInterval)
HandleSubscribe ==
    /\ Receives("Subscribe")
    /\ Head(cmd_queue).sub.kind = "CheckUpdateInterval"
    /\ check_update_subs' = check_update_subs \cup {Head(cmd_queue).plugin_id}
    /\ AfterCommand(<<HandleUpdate(Head(cmd_queue).plugin_id,
                                   PluginEvent("IntervalUpdate", <<>>, observed))>>)
    /\ observed' = observed + 1
    /\ last' = [op |-> "Subscribe", plugin_id |-> Head(cmd_queue).plugin_id]
    /\ UNCHANGED <<plugins, delivered>>
    /\ WatchUnchanged
    /\ StoreUnchanged

\* the directories that exist, and the test of Subscribe on the path
Directories == {<<"a">>, <<"b">>}

\* mutant: every path is taken
IsValidDirectory_Always(path) == TRUE

\* path.exists() && path.is_dir()
IsValidDirectory(path) == path \in Directories

\* Subscribe(plugin_id, WatchDirectory { path, recurse }); last.accepted
\* tells whether the path was taken
HandleSubscribeWatch ==
    /\ Receives("Subscribe")
    /\ Head(cmd_queue).sub.kind = "WatchDirectory"
    /\ LET plugin_id == Head(cmd_queue).plugin_id
           sub == Head(cmd_queue).sub
       IN  /\ IF ~ IsValidDirectory(sub.path)
              THEN UNCHANGED <<watched, file_watch_subs>>
              ELSE /\ watched' = watched \cup {[path |-> sub.path, recurse |-> sub.recurse,
                                                  by |-> plugin_id]}
                   /\ file_watch_subs' = (plugin_id :> sub.path) @@ file_watch_subs
           /\ last' = [op |-> "SubscribeWatch", plugin_id |-> plugin_id, path |-> sub.path,
                       accepted |-> IsValidDirectory(sub.path)]
    /\ AfterCommand(<<>>)
    /\ UNCHANGED <<plugins, check_update_subs, delivered, observed, fs, file_events>>
    /\ StoreUnchanged

\* a one to one sequence over the members of a set: an order of iteration
OrdersOf(S) ==
    {order \in [1..Cardinality(S) -> S] :
        \A i \in DOMAIN order : \A j \in DOMAIN order : order[i] = order[j] => i = j}

\* interval.tick() is ready: QueueIntervalCheck, the subscribers in the order
\* the set gives them
QueueIntervalCheck ==
    /\ backend = "running"
    /\ loop_pc = "recv"
    /\ UpdatesToCome + Cardinality(check_update_subs) <= MaxDelivered
    /\ \E order \in OrdersOf(check_update_subs) :
          /\ AfterCommand([i \in DOMAIN order |->
                              HandleUpdate(order[i],
                                           PluginEvent("IntervalUpdate", <<>>,
                                                       observed + i - 1))])
          /\ last' = [op |-> "QueueIntervalCheck", subs |-> check_update_subs]
    /\ observed' = observed + Cardinality(check_update_subs)
    /\ UNCHANGED <<plugins, check_update_subs, cmd_queue, delivered>>
    /\ WatchUnchanged
    /\ StoreUnchanged

\* the match on file_event.kind: the plugin event of a raw event, if any
MappedEvent(kind) ==
    CASE kind = "Create" -> "FileCreated"
      [] kind = "ModifyData" -> "FileUpdated"
      [] kind = "Remove" -> "FileDeleted"
      [] OTHER -> "None"

\* the files under the watched directories; the standard filters leave
\* hidden files out
Files == {<<"a", "x">>, <<"a", ".h">>}

Hidden == {<<"a", ".h">>}

\* WalkBuilder::new(watched_path).standard_filters(true): the directory and
\* what exists under it now and is not ignored
ValidPaths(root, files) ==
    {root} \cup {f \in files : IsPrefix(root, f) /\ f \notin Hidden}

\* the plugins that are sent the event of a path: the watched path is a
\* prefix and the walk has the path
NotifiedPlugins(subs, files, path) ==
    {id \in DOMAIN subs :
        /\ IsPrefix(subs[id], path)
        /\ path \in ValidPaths(subs[id], files)}

\* file_events.recv() has an event: QueueFileNotify.  last.sent are the
\* plugins a HandleUpdate is made for.
HandleQueueFileNotify ==
    /\ backend = "running"
    /\ loop_pc = "recv"
    /\ file_events # <<>>
    /\ file_events' = Tail(file_events)
    /\ LET file_event == Head(file_events)
           kind == MappedEvent(file_event.kind)
           to == IF kind = "None"
                 THEN {}
                 ELSE NotifiedPlugins(file_watch_subs, fs, file_event.path)
       IN  /\ \E order \in OrdersOf(to) :
                 AfterCommand([i \in DOMAIN order |->
                                  HandleUpdate(order[i],
                                               PluginEvent(kind, file_event.path,
                                                           observed + i - 1))])
           /\ observed' = observed + Cardinality(to)
           /\ last' = [op |-> "QueueFileNotify", kind |-> file_event.kind,
                       path |-> file_event.path, sent |-> to,
                       subs |-> file_watch_subs]
    /\ UNCHANGED <<plugins, check_update_subs, cmd_queue, delivered>>
    /\ UNCHANGED <<file_watch_subs, watched, fs>>
    /\ StoreUnchanged

\* shutdown_rx.recv() is ready and select! takes it: the loop closes its
\* channels and returns
LoopShutdown ==
    /\ backend = "running"
    /\ loop_pc = "recv"
    /\ shutdown_rx = "now"
    /\ loop_pc' = "returned"
    /\ last' = [op |-> "loop_returns"]
    /\ UNCHANGED <<plugins, check_update_subs, cmd_queue, pending, delivered,
                   shutdown_rx, observed>>
    /\ WatchUnchanged
    /\ StoreUnchanged

\* start_backend at the end, signal::ctrl_c() gave an error:
\* shutdown_tx.send(AppShutdown::Now).  While the loop is in plugin_load the
\* receiver is the one start_backend made at the spawn (main.rs:216), which
\* keeps the message, or none yet (mod.rs:190), and the message is missed.
ShutdownBroadcast ==
    /\ backend = "running"
    /\ shutdown_rx \in {"unsubscribed", "empty"}
    /\ shutdown_rx' \in IF shutdown_rx = "empty" THEN {"now"} ELSE {"now", "missed"}
    /\ last' = [op |-> "shutdown_broadcast"]
    /\ UNCHANGED <<plugins, check_update_subs, cmd_queue, loop_pc, pending, delivered,
                   observed>>
    /\ WatchUnchanged
    /\ StoreUnchanged

\* a sender outside the loop: the settings page for Disable and Enable, a
\* plugin's call of subscribe
SendCommand(command) ==
    /\ backend = "running"
    /\ loop_pc \in {"recv", "send"}
    /\ Len(cmd_queue) < MaxQueued
    /\ cmd_queue' = Enqueue(cmd_queue, command)
    /\ last' = [op |-> "send", cmd |-> command]
    /\ UNCHANGED <<plugins, check_update_subs, loop_pc, pending, delivered,
                   shutdown_rx, observed>>
    /\ WatchUnchanged
    /\ StoreUnchanged

TogglePlugin ==
    \E name \in PluginNames :
        \/ SendCommand(DisablePlugin(name))
        \/ /\ InstancesToCome < MaxPlugins
           /\ SendCommand(EnablePlugin(name))

PluginSubscribes ==
    \E id \in DOMAIN plugins :
        /\ UpdatesToCome < MaxDelivered
        /\ SendCommand(Subscribe(id, CheckUpdateInterval))

\* a plugin asks to watch a directory or a path that is not one, one
\* request on its way at a time
PluginWatches ==
    \E id \in DOMAIN plugins, path \in Directories \cup {<<"f">>} :
        /\ file_events = <<>>
        /\ CountSubscribe(cmd_queue, "WatchDirectory") = 0
        /\ SendCommand(Subscribe(id, WatchDirectory(path, TRUE)))

\* the file system changes; the watcher sends the event of a path under a
\* directory it watches, and waits while the channel of one slot is full
FsChange(kind, path) ==
    /\ backend = "running"
    /\ loop_pc \in {"recv", "send"}
    /\ CASE kind = "Create" -> path \notin fs /\ fs' = fs \cup {path}
         [] kind = "Remove" -> path \in fs /\ fs' = fs \ {path}
         [] OTHER -> path \in fs /\ UNCHANGED fs
    /\ IF \E w \in watched : IsPrefix(w.path, path)
       THEN /\ file_events = <<>>
            /\ UpdatesToCome + Cardinality(WatchersToCome) <= MaxDelivered
            /\ file_events' = Append(file_events, [kind |-> kind, path |-> path])
       ELSE UNCHANGED file_events
    /\ last' = [op |-> "fs_change", kind |-> kind, path |-> path]
    /\ UNCHANGED <<plugins, check_update_subs, cmd_queue, loop_pc, pending, delivered,
                   file_watch_subs, watched, shutdown_rx, observed>>
    /\ StoreUnchanged

FileChanges ==
    \E kind \in {"Create", "ModifyData", "ModifyMetadata", "Remove"}, path \in Files :
        FsChange(kind, path)

InitPlugin == InitWith({Settings(Limit(FALSE, 0), 2, 2)})

NextPlugin ==
    \/ start_backend
    \/ spawn_tasks
    \/ plugin_load
    \/ LoopSend
    \/ HandleDisablePlugin
    \/ HandleEnablePlugin
    \/ HandleHandleUpdate
    \/ HandleInitialize
    \/ HandleSubscribe
    \/ QueueIntervalCheck
    \/ TogglePlugin
    \/ PluginSubscribes

SpecPlugin == InitPlugin /\ [][NextPlugin]_vars

\* C20: when the loop handles a HandleUpdate for a plugin whose is_enabled is
\* false, nothing is written to the plugin and update is not called, whatever
\* DisablePlugin, EnablePlugin and HandleUpdate commands came before.
C20_DisabledPluginGetsNoUpdate ==
    [][(last'.op = "HandleUpdate" /\ ~ last'.enabled) => delivered' = delivered]_vars

\* a HandleUpdate for a plugin that was subscribed and then disabled has
\* been handled
C20_Witness ==
    /\ last.op = "HandleUpdate"
    /\ ~ last.enabled
    /\ last.plugin_id \in DOMAIN plugins
    /\ \E i \in DOMAIN delivered : delivered[i].plugin_id = last.plugin_id

\* ------------------------------------------------------- interval checks
\* Plugins subscribe to the interval check and the timer fires.  The loop
\* takes its next turn whenever it can; the timer and the plugins act when
\* they please.
LoopTurn ==
    \/ plugin_load
    \/ LoopSend
    \/ HandleInitialize
    \/ HandleSubscribe
    \/ HandleHandleUpdate
    \/ HandleDisablePlugin

DisableRequest == \E name \in PluginNames : SendCommand(DisablePlugin(name))

NextInterval ==
    \/ start_backend
    \/ spawn_tasks
    \/ LoopTurn
    \/ QueueIntervalCheck
    \/ PluginSubscribes
    \/ DisableRequest

SpecInterval == InitPlugin /\ [][NextInterval]_vars /\ WF_vars(LoopTurn)

\* C21: after the loop has handled QueueIntervalCheck, a HandleUpdate with
\* IntervalUpdate is handled for every plugin that was in check_update_subs.
C21_IntervalUpdateReachesSubscribers ==
    \A id \in 0..(MaxPlugins - 1) :
        (last.op = "QueueIntervalCheck" /\ id \in last.subs)
            ~> (/\ last.op = "HandleUpdate"
                /\ last.plugin_id = id
                /\ last.event.kind = "IntervalUpdate")


\* ---------------------------------------------------------------------
\* File events: plugins that watch directories, a file system that changes
\* and the loop that turns the watcher's events into plugin events.
\* ---------------------------------------------------------------------

NextWatch ==
    \/ start_backend
    \/ spawn_tasks
    \/ plugin_load
    \/ LoopSend
    \/ HandleInitialize
    \/ HandleSubscribeWatch
    \/ HandleHandleUpdate
    \/ HandleQueueFileNotify
    \/ PluginWatches
    \/ FileChanges

SpecWatch == InitPlugin /\ [][NextWatch]_vars

\* C22: when the loop handles a file event of kind Create, Modify (data) or
\* Remove for a path the ignore rules keep, it makes a HandleUpdate with the
\* mapped event for every plugin whose watched root is a prefix of the path,
\* for Remove as for the others.
C22_FileEventReachesWatchers ==
    [][(/\ file_events' # file_events
        /\ last'.op = "QueueFileNotify"
        /\ MappedEvent(last'.kind) # "None"
        /\ last'.path \notin Hidden)
       => \A id \in DOMAIN file_watch_subs :
             IsPrefix(file_watch_subs[id], last'.path)
                => /\ id \in last'.sent
                   /\ \E i \in DOMAIN pending' :
                         /\ pending'[i].plugin_id = id
                         /\ pending'[i].event.kind = MappedEvent(last'.kind)
                         /\ pending'[i].event.path = last'.path]_vars

\* C23: the events a plugin has been given are in the order the loop made
\* them (event.n numbers the events as the loop observes them), and a step
\* gives at most one event: update calls do not overlap.
C23_DeliveredInObservedOrder ==
    /\ [](\A i \in DOMAIN delivered : \A j \in DOMAIN delivered :
             (i < j /\ delivered[i].plugin_id = delivered[j].plugin_id)
                => delivered[i].event.n < delivered[j].event.n)
    /\ [][Len(delivered') <= Len(delivered) + 1]_vars

\* one plugin has been given two file events
C23_Witness ==
    \E i \in DOMAIN delivered : \E j \in DOMAIN delivered :
        /\ i < j
        /\ delivered[i].plugin_id = delivered[j].plugin_id
        /\ delivered[i].event.kind \in {"FileCreated", "FileUpdated"}
        /\ delivered[j].event.kind \in {"FileCreated", "FileUpdated"}

\* ---------------------------------------------------------------------
\* Shutdown: the broadcast is sent once, at any time.  The loop takes its
\* turns whenever it can, and select! picks among the branches that are
\* ready at random, so a branch that is ready again and again is taken.
\* ---------------------------------------------------------------------

NextShutdown ==
    \/ NextInterval
    \/ ShutdownBroadcast
    \/ LoopShutdown

SpecShutdown ==
    InitPlugin /\ [][NextShutdown]_vars /\ WF_vars(LoopTurn) /\ SF_vars(LoopShutdown)

\* what last.op is after the loop has taken a command to its match
HandledCommands ==
    {"DisablePlugin", "EnablePlugin", "HandleUpdate", "Initialize", "Subscribe",
     "SubscribeWatch", "QueueIntervalCheck", "QueueFileNotify"}

\* C24: once the shutdown broadcast is sent the loop eventually returns, and
\* from the moment it is back at select! with the signal in its receiver it
\* takes no further command.
C24_ShutdownStopsLoop ==
    /\ (last.op = "shutdown_broadcast") ~> (loop_pc = "returned")
    /\ [][(shutdown_rx = "now" /\ loop_pc = "recv")
             => last'.op \notin HandledCommands]_vars

\* ---------------------------------------------------------------------
\* The life of a task: every operation of the queue on rows that are
\* enqueued, claimed, done or failed, enqueued again for a recrawl and
\* renamed, over restarts of the backend.
\* ---------------------------------------------------------------------

InitLife == InitWith({Settings(Limit(FALSE, 0), 2, 2)})

EnqueueLife ==
    EnqueueFrom({<<U_file>>}, {FilterInput({LensAB}, {}, FALSE, FALSE)},
                {"Normal"}, BOOLEAN)

RenameLife == \E id \in Ids : update_or_remove_task(id, U_b)

NextLife ==
    \/ start_backend
    \/ spawn_tasks
    \/ Shutdown
    \/ EnqueueLife
    \/ Dequeue
    \/ DequeueRecrawl
    \/ MarkDone
    \/ MarkFailed
    \/ RenameLife
    \/ Tick

SpecLife == InitLife /\ [][NextLife]_vars

\* the rows that a step keeps
Kept == DOMAIN queue \cap DOMAIN queue'

\* C25: a step changes the status of a row only along Queued -> Processing ->
\* {Completed, Failed, Queued}; mark_done and mark_failed change the status
\* of Processing rows only, a Failed row keeps its status, and a Completed
\* row becomes Queued or Processing only by dequeue_recrawl or by an enqueue
\* with is_recrawl.
C25_StatusLifecycle ==
    [][\A id \in Kept :
          queue'[id].status # queue[id].status
             => /\ queue[id].status # "Failed"
                /\ queue[id].status = "Queued" => queue'[id].status = "Processing"
                /\ queue[id].status = "Processing"
                      => queue'[id].status \in {"Completed", "Failed", "Queued"}
                /\ queue[id].status = "Completed"
                      => /\ queue'[id].status \in {"Queued", "Processing"}
                         /\ \/ last'.op = "dequeue_recrawl"
                            \/ last'.op = "enqueue_all" /\ last'.is_recrawl
                /\ last'.op \in {"mark_done", "mark_failed"}
                      => queue[id].status = "Processing"]_vars

\* C26 as stated: num_retries of every row is between 0 and MAX_RETRIES.
C26_RetriesWithinMax ==
    \A id \in DOMAIN queue : queue[id].num_retries \in 0..MAX_RETRIES

\* C26: num_retries of every row is between 0 and MAX_RETRIES + 1; the test
\* of mark_failed lets a row with num_retries = MAX_RETRIES be retried once
\* more.
C26_RetriesWithinMaxPlusOne ==
    \A id \in DOMAIN queue : queue[id].num_retries \in 0..(MAX_RETRIES + 1)

\* a row has been retried MAX_RETRIES + 1 times
C26_Witness ==
    \E id \in DOMAIN queue :
        /\ queue[id].num_retries = MAX_RETRIES + 1
        /\ queue[id].status = "Queued"

\* C27: no step lowers the num_retries of a row it keeps, and a mark_failed
\* of a row whose num_retries is above MAX_RETRIES makes the row Failed.
C27_RetriesMonotone ==
    [][\A id \in Kept :
          /\ queue'[id].num_retries >= queue[id].num_retries
          /\ (/\ last'.op = "mark_failed"
              /\ last'.id = id
              /\ queue[id].num_retries > MAX_RETRIES)
                => queue'[id].status = "Failed"]_vars

\* a row with more than MAX_RETRIES retries has been made Failed by a
\* mark_failed that asked for a retry
C27_Witness ==
    /\ last.op = "mark_failed"
    /\ last.retry
    /\ last.id \in DOMAIN queue
    /\ queue[last.id].num_retries > MAX_RETRIES
    /\ queue[last.id].status = "Failed"

\* C28: the domain of every row is the host of the row's url, or localhost
\* when the scheme of the url is file, also after a rename.
C28_DomainIsHostOfUrl ==
    \A id \in DOMAIN queue : queue[id].domain = DomainOf(queue[id].url)

\* C29: updated_at of every row is at or after created_at, and a step that
\* changes a row it keeps sets the row's updated_at to the time of the step.
C29_UpdatedAtBumped ==
    /\ [](\A id \in DOMAIN queue : queue[id].updated_at >= queue[id].created_at)
    /\ [][\A id \in Kept :
             queue'[id] # queue[id] => queue'[id].updated_at = now']_vars

\* C30: an enqueue with is_recrawl changes the status of a row it finds only
\* when the row is Completed; a Processing row stays Processing.
C30_RecrawlKeepsProcessing ==
    [][(last'.op = "enqueue_all" /\ last'.is_recrawl)
          => \A id \in Kept :
                /\ queue'[id].status # queue[id].status
                      => queue[id].status = "Completed"
                /\ queue[id].status = "Processing"
                      => queue'[id].status = "Processing"]_vars

\* C31: an enqueue_all without is_recrawl leaves every row that exists as it
\* is, the rows of the urls it was given included, and adds no second row for
\* a url that has one.
C31_PlainEnqueueKeepsRows ==
    [][(last'.op = "enqueue_all" /\ ~ last'.is_recrawl)
          => /\ \A id \in DOMAIN queue :
                   id \in DOMAIN queue' /\ queue'[id] = queue[id]
             /\ \A id \in DOMAIN queue' \ DOMAIN queue :
                   IdsWithUrl(queue, queue'[id].url) = {}]_vars

\* an enqueue_all without is_recrawl was given the url of a row that is not
\* Queued
C31_Witness ==
    /\ last.op = "enqueue_all"
    /\ ~ last.is_recrawl
    /\ \E id \in DOMAIN queue :
          /\ id \notin last.new
          /\ queue[id].url \in last.added
          /\ queue[id].status \in {"Processing", "Completed"}

\* C32: an enqueue_all without is_recrawl makes no row for a url that is in
\* the indexed documents; with is_recrawl every url that passes filter_urls
\* has a row afterwards, the indexed ones too.
C32_IndexedUrlsSkippedUnlessRecrawl ==
    [][last'.op = "enqueue_all"
          => IF last'.is_recrawl
             THEN \A u \in last'.filtered : IdsWithUrl(queue', u) # {}
             ELSE \A id \in DOMAIN queue' \ DOMAIN queue :
                     queue'[id].url \notin indexed]_vars

\* an enqueue_all without is_recrawl has dropped a url that passed
\* filter_urls, is indexed and has no row
C32_Witness ==
    /\ last.op = "enqueue_all"
    /\ ~ last.is_recrawl
    /\ \E u \in last.filtered \cap indexed : IdsWithUrl(queue, u) = {}

\* ---------------------------------------------------------------------
\* Claims and deletes: two callers run dequeue one await at a time while
\* rows are removed by rule or by update_or_remove_task.
\* ---------------------------------------------------------------------

InitClaim == InitWith({Settings(Limit(FALSE, 0), 2, 2)})

EnqueueClaim ==
    EnqueueFrom({<<U_ax>>, <<U_b>>}, {FilterInput({LensAB}, {}, FALSE, FALSE)},
                {"Normal"}, {FALSE})

DequeueStep ==
    \E c \in Callers : DequeueCount(c) \/ DequeuePick(c) \/ DequeueClaim(c)

NextClaim ==
    \/ start_backend
    \/ spawn_tasks
    \/ EnqueueClaim
    \/ DequeueStep
    \/ RemoveByRule
    \/ UpdateOrRemove

SpecClaim == InitClaim /\ [][NextClaim]_vars

\* C34: when a caller of dequeue reaches the update of its claim and the row
\* it selected is gone, the call returns None and the table is as it was: no
\* row is made for the task and none becomes Processing.
C34_ClaimOfDeletedRowGivesNone ==
    [][\A c \in Callers :
          (/\ pc[c] = "dequeue_claim"
           /\ pc'[c] = "idle"
           /\ sel[c].id \notin DOMAIN queue)
              => /\ last'.op = "dequeue"
                 /\ last'.caller = c
                 /\ last'.ret = None
                 /\ queue' = queue]_vars

\* a dequeue has returned None because the row it had selected was deleted
\* before the update, while another row is still Queued
C34_Witness ==
    /\ last.op = "dequeue"
    /\ last.ret = None
    /\ "gone" \in DOMAIN last
    /\ last.gone \notin DOMAIN queue
    /\ \E id \in DOMAIN queue : queue[id].status = "Queued"

\* ---------------------------------------------------------------------
\* Lens rules that do not compile.  A rule made from a url with an open
\* bracket gives a pattern the regex compiler refuses; filter_urls compiles
\* the three lists it has put together from the block list and all lenses.
\* ---------------------------------------------------------------------

U_bracket == Url("https", "a.com", <<"/", "[">>, "")

\* Regex::new is Ok for the pattern
Compiles(pat) == pat.url # U_bracket

\* RegexSet::new(list) is Ok: every pattern of the list compiles
RegexSet_new(list) == \A pat \in list : Compiles(pat)

\* the lists filter_urls hands to RegexSet::new
PatternLists(lenses, block_list) ==
    {AllowPatterns(lenses), SkipPatterns(lenses, block_list), RestrictPatterns(lenses)}

LensBroken == LensConfig({"b.com"}, {}, {SkipURL(U_bracket)})

\* a lens without the rules that do not compile
WithoutBrokenRules(l) == [l EXCEPT !.rules = {r \in l.rules : Compiles(to_regex(r))}]

\* a call of filter_urls with its RegexSet::new(..).expect(..): the call
\* panics when a list does not compile
FilterWithLenses ==
    /\ last.op = "init"
    /\ \E urls \in UrlBatches, ls \in SUBSET {LensAB, LensSkip, LensBroken},
          bl \in SUBSET Domains, ext \in BOOLEAN, force \in BOOLEAN :
          LET ok == \A list \in PatternLists(ls, bl) : RegexSet_new(list)
              f == FilterInput(ls, bl, ext, force)
          IN  last' = [op |-> "filter_urls", urls |-> urls, lenses |-> ls,
                       block_list |-> bl, crawl_external_links |-> ext,
                       force_allow |-> force, panicked |-> ~ ok,
                       ret |-> IF ok
                               THEN filter_urls(ls, f, Overrides("Normal", force, FALSE),
                                                urls)
                               ELSE <<>>]
    /\ UNCHANGED <<queue, next_id, indexed, now, user_settings, backend, pc, sel, handed,
                   plugin_vars>>

NextLens == FilterWithLenses

SpecLens == InitFilter /\ [][NextLens]_vars

\* C35: a call of filter_urls whose lenses have a rule that does not compile
\* does not panic and returns what the call returns for the same lenses
\* without that rule.
C35_BrokenRuleIsSkipped ==
    last.op = "filter_urls"
        => /\ ~ last.panicked
           /\ last.ret =
                 filter_urls({WithoutBrokenRules(l) : l \in last.lenses},
                             FilterInput(last.lenses, last.block_list,
                                         last.crawl_external_links, last.force_allow),
                             Overrides("Normal", last.force_allow, FALSE), last.urls)

\* ---------------------------------------------------------------------
\* enqueue_all, one insert statement per chunk; the store may refuse a
\* statement.
\* ---------------------------------------------------------------------

\* to_add.chunks(BATCH_SIZE)
RECURSIVE chunks(_, _)
chunks(rows, n) ==
    IF Len(rows) <= n
    THEN IF rows = <<>> THEN <<>> ELSE <<rows>>
    ELSE <<SubSeq(rows, 1, n)>> \o chunks(SubSeq(rows, n + 1, Len(rows)), n)

\* mutant: the error of a statement ends the loop and is returned
RECURSIVE InsertChunks_AbortOnError(_, _, _, _, _)
InsertChunks_AbortOnError(st, cs, i, failed, is_recrawl) ==
    IF i > Len(cs)
    THEN [st |-> st, ret |-> "Ok"]
    ELSE IF i \in failed
         THEN [st |-> st, ret |-> "Err"]
         ELSE InsertChunks_AbortOnError(InsertMany(st, cs[i], is_recrawl), cs, i + 1,
                                        failed, is_recrawl)

\* the loop over the chunks: db.execute gives Ok, or Err that is logged;
\* failed are the statements the store refuses
RECURSIVE InsertChunks(_, _, _, _, _)
InsertChunks(st, cs, i, failed, is_recrawl) ==
    IF i > Len(cs)
    THEN [st |-> st, ret |-> "Ok"]
    ELSE InsertChunks(IF i \in failed THEN st ELSE InsertMany(st, cs[i], is_recrawl),
                      cs, i + 1, failed, is_recrawl)

\* enqueue_all with the statements that fail; last.chunks are the urls of
\* each statement
enqueue_all_chunks(urls, lenses, settings, overrides, pipeline) ==
    LET rows == RowsToAdd(urls, lenses, settings, overrides, pipeline, indexed, now)
        cs == chunks(rows, ChunkLen)
    IN  /\ backend = "running"
        /\ \E failed \in SUBSET DOMAIN cs :
              LET out == InsertChunks([q |-> queue, nid |-> next_id], cs, 1, failed,
                                      overrides.is_recrawl)
              IN  /\ out.st.nid <= MaxId + 1
                  /\ queue' = out.st.q
                  /\ next_id' = out.st.nid
                  /\ handed' = HandedAfter(out.st.q, queue, handed)
                  /\ last' = [op |-> "enqueue_all_chunks", urls |-> urls,
                              is_recrawl |-> overrides.is_recrawl,
                              chunks |-> [i \in DOMAIN cs |->
                                             {cs[i][k].url : k \in DOMAIN cs[i]}],
                              failed |-> failed,
                              new |-> DOMAIN out.st.q \ DOMAIN queue,
                              ret |-> out.ret]
        /\ UNCHANGED <<indexed, now, user_settings, backend, pc, sel, plugin_vars>>

EnqueueChunks ==
    \E urls \in {<<U_a, U_b>>, <<U_b, U_file>>, <<U_a, U_ax, U_b>>} :
        enqueue_all_chunks(urls, {LensAB}, FilterInput({LensAB}, {}, FALSE, FALSE),
                           Overrides("Normal", FALSE, FALSE), "none")

NextChunks ==
    \/ start_backend
    \/ spawn_tasks
    \/ EnqueueChunks
    \/ Dequeue
    \/ MarkDone
    \/ RemoveByRule

SpecChunks == InitStore /\ [][NextChunks]_vars

\* C36: enqueue_all returns Ok whatever statements the store refuses, every
\* url of a statement that went through has a row afterwards, and the rows
\* that were there stay as they were.
C36_FailedChunkDoesNotAbort ==
    [][last'.op = "enqueue_all_chunks"
          => /\ last'.ret = "Ok"
             /\ \A i \in DOMAIN last'.chunks \ last'.failed :
                   \A u \in last'.chunks[i] : IdsWithUrl(queue', u) # {}
             /\ \A id \in DOMAIN queue :
                   id \in DOMAIN queue' /\ queue'[id] = queue[id]]_vars

\* the first statement of an enqueue_all was refused and a later one has
\* made a row
C36_Witness ==
    /\ last.op = "enqueue_all_chunks"
    /\ 1 \in last.failed
    /\ \E i \in DOMAIN last.chunks \ last.failed :
          \E id \in last.new : queue[id].url \in last.chunks[i]

\* C37: when the loop handles Subscribe(WatchDirectory) for a path that is
\* not a directory, the watched paths of the plugins and of the watcher stay
\* as they are, nothing is sent, and the loop is back at select!.
C37_InvalidWatchPathRejected ==
    [][(/\ loop_pc = "recv"
        /\ cmd_queue # <<>>
        /\ cmd_queue' = Tail(cmd_queue)
        /\ Head(cmd_queue).cmd = "Subscribe"
        /\ Head(cmd_queue).sub.kind = "WatchDirectory"
        /\ Head(cmd_queue).sub.path \notin Directories)
          => /\ file_watch_subs' = file_watch_subs
             /\ watched' = watched
             /\ pending' = <<>>
             /\ delivered' = delivered
             /\ loop_pc' = "recv"]_vars

\* a plugin that watches a directory has asked for a path that is a file,
\* and the loop has refused it
C37_Witness ==
    /\ last.op = "SubscribeWatch"
    /\ ~ last.accepted
    /\ last.path = <<"f">>
    /\ last.plugin_id \in DOMAIN file_watch_subs
    /\ loop_pc = "recv"

\* C38: no two entries of the plugin registry have the same name, and the
\* events given to the plugin of one name all go to one instance.
C38_OneInstancePerName ==
    /\ \A i \in DOMAIN plugins : \A j \in DOMAIN plugins :
          plugins[i].name = plugins[j].name => i = j
    /\ \A i \in DOMAIN delivered : \A j \in DOMAIN delivered :
          (/\ delivered[i].plugin_id \in DOMAIN plugins
           /\ delivered[j].plugin_id \in DOMAIN plugins
           /\ plugins[delivered[i].plugin_id].name = plugins[delivered[j].plugin_id].name)
              => delivered[i].plugin_id = delivered[j].plugin_id

\* C39: when the loop handles a file event of kind Create or Modify (data)
\* for a file that exists and that the ignore rules keep, every plugin that
\* has had a WatchDirectory subscription accepted for a directory above the
\* file is sent the event, whatever it subscribed to afterwards.
C39_WatchSubscriptionsKept ==
    [][(/\ file_events' # file_events
        /\ last'.op = "QueueFileNotify"
        /\ MappedEvent(last'.kind) # "None"
        /\ last'.path \in fs
        /\ last'.path \notin Hidden)
       => \A w \in watched :
             IsPrefix(w.path, last'.path) => w.by \in last'.sent]_vars

\* --------------------------------------------------- progress of the queue
\* The scheduler under fairness: tasks of two domains are admitted (no more
\* than MaxId rows), one caller keeps calling dequeue, the crawler reports
\* every task it was handed by mark_done or mark_failed, and stores
\* documents.  One task in flight at a time, one task in flight per domain,
\* one document per domain.
InitProgress == InitWith({Settings(Limit(TRUE, 1), 1, 1)})

EnqueueProgress ==
    EnqueueFrom({<<U_a>>, <<U_b>>}, {FilterInput({LensAB}, {}, FALSE, FALSE)},
                {"Normal"}, {FALSE})

\* the worker's report of a task that dequeue handed to it
Report(id) ==
    /\ id \in DOMAIN queue
    /\ queue[id].status = "Processing"
    /\ \/ mark_done(id)
       \/ \E retry \in BOOLEAN : mark_failed(id, retry)

ReportTask == \E id \in Ids : Report(id)

NextProgress ==
    \/ start_backend
    \/ spawn_tasks
    \/ EnqueueProgress
    \/ Dequeue
    \/ ReportTask
    \/ IndexPage

\* the scheduler keeps calling dequeue and every task handed out is reported
SpecProgress ==
    /\ InitProgress
    /\ [][NextProgress]_vars
    /\ WF_vars(Dequeue)
    /\ \A id \in Ids : WF_vars(Report(id))

QueuedBelowCap(id) ==
    /\ backend = "running"
    /\ id \in DOMAIN queue
    /\ queue[id].status = "Queued"
    /\ IndexedCount(indexed, queue[id].domain) < user_settings.domain_crawl_limit

Finished(id) ==
    /\ id \in DOMAIN queue
    /\ queue[id].status \in {"Completed", "Failed"}

\* the domain of a task that is not a Bootstrap task has reached the cap
AtCap(id) ==
    /\ id \in DOMAIN queue
    /\ queue[id].crawl_type # "Bootstrap"
    /\ IndexedCount(indexed, queue[id].domain) >= user_settings.domain_crawl_limit

Requeued(id) ==
    /\ last.op = "mark_failed"
    /\ last.id = id
    /\ last.retry
    /\ id \in DOMAIN queue
    /\ queue[id].status = "Queued"

\* C40 as stated: under the fair scheduler every Queued task whose domain is
\* below the indexed-document cap eventually is Completed or Failed, and no
\* task is re-queued by mark_failed(retry = true) forever.
C40_QueuedTaskFinishes ==
    /\ \A id \in Ids : QueuedBelowCap(id) ~> Finished(id)
    /\ \A id \in Ids : <>[](~ Requeued(id))

\* C40 amended: under the fair scheduler every Queued task whose domain is
\* below the indexed-document cap eventually is Completed or Failed, or its
\* domain reaches the cap first and the task is not a Bootstrap task; and no
\* task is re-queued by mark_failed(retry = true) forever.
C40_QueuedTaskFinishesOrAtCap ==
    /\ \A id \in Ids : QueuedBelowCap(id) ~> (Finished(id) \/ AtCap(id))
    /\ \A id \in Ids : <>[](~ Requeued(id))

\* a task that was dequeued and re-queued until mark_failed gave it up
C40_Witness ==
    /\ last.op = "mark_failed"
    /\ last.retry
    /\ last.id \in DOMAIN queue
    /\ queue[last.id].status = "Failed"
    /\ queue[last.id].num_retries = MAX_RETRIES + 1

====
